---- MODULE Spec2Model ----
(***************************************************************************)
(* The in-memory Pub/Sub fake (package pstest): GServer with its topics,   *)
(* subscriptions, streams, message log and the per-subscription background *)
(* delivery task.  Time is counted in seconds; a message id "m<n>" is      *)
(* represented by the number n that fmt.Sprintf formats into it.           *)
(***************************************************************************)
EXTENDS Integers, Sequences, FiniteSets, TLC

\* ------------------------------------------------------------------ bounds
MaxMsgs == 2          \* ids issued by Publish in one behaviour
MaxTicks == 2         \* clock advances in one behaviour
MaxSubObjs == 2       \* subscription objects ever created
MaxStreams == 2       \* stream objects ever created
MaxModacks == 1       \* unary ModifyAckDeadline records per message
MaxDeliveries == 2    \* deliveries of one message that a stream's nack may follow
MaxAcks == 2          \* acknowledgement count of one message that Seek may raise
MaxReactors == 2      \* reactors registered under one operation name
MaxHolders == 2       \* dsmock: concurrent callers of the emulator pool
MaxEmulators == 2     \* dsmock: emulators ever started
MaxId == 2            \* dsfake: numeric ids of keys

\* ------------------------------------------------------- program constants
maxAckDeadlineSecs == 600
defaultMinAckDeadlineSecs == 10
defaultAckTimeout == 10
minMessageRetentionDuration == 600
maxMessageRetentionDuration == 604800
retentionDuration == 600
defaultMaxMessages == 1000

ZeroTime == 0         \* time.Time{}: the clock itself starts at 1
NoStream == -1        \* message.streamIndex of a message no stream has owned
NoDuration == -1     \* a request without message_retention_duration
DeletedTopic == "_deleted-topic_"

\* ---------------------------------------------------------------- inputs
TopicNames == {"t1", "t2"}
SubNames == {"s1", "s2"}
MsgIds == 0 .. (MaxMsgs - 1)

VARIABLES
    topics,             \* GServer.topics: name -> topic
    subs,               \* GServer.subs: name -> subscription object
    subObjs,            \* the subscription objects, in creation order
    streamObjs,         \* the stream objects, in creation order
    msgs,               \* GServer.msgs: the log, ids in publish order
    msgsByID,           \* GServer.msgsByID: the ids with a record
    messages,           \* the Message objects (counters, audit log)
    nextID,             \* GServer.nextID
    now,                \* the clock timeNowFunc reads
    ticks,              \* clock advances so far
    minAckDeadlineSecs, \* package variable minAckDeadlineSecs
    dlv,                \* the deliver() call that holds GServer.mu, if any
    pullWait,           \* unary Pull calls in their long-poll wait
    panicked,           \* a nil dereference has ended the process
    last,               \* the operation that acted last and its result
    hIssued,            \* history: every id issued, in order of issue
    hAcked,             \* history: per subscription object, ids acknowledged
    hLease,             \* history: per subscription object, lease of each id
    reactorOptions,     \* GServer.reactorOptions: operation name -> reactors
    streamTimeout,      \* GServer.streamTimeout, in seconds
    lockFiles,          \* dsmock: the lock files of the emulators, by emulator
    holders,            \* dsmock: the callers of acquireDatastoreEmulator
    objects,            \* dsfake: FakeDatastore.objects, key name -> entity
    dsLast              \* dsfake: the last request and its response

vars == <<topics, subs, subObjs, streamObjs, msgs, msgsByID, messages, nextID,
          now, ticks, minAckDeadlineSecs, dlv, pullWait, panicked, last, hIssued, hAcked, hLease,
          reactorOptions, streamTimeout, lockFiles, holders, objects, dsLast>>

\* ---------------------------------------------------------------- helpers
NoDeliver == [sub |-> 0]

Range(f) == {f[x] : x \in DOMAIN f}

Min(a, b) == IF a < b THEN a ELSE b

\* the function f without the keys in S
Without(f, S) == [x \in (DOMAIN f) \ S |-> f[x]]

\* the function f with key k set to v
With(f, k, v) == [x \in (DOMAIN f) \cup {k} |-> IF x = k THEN v ELSE f[x]]

\* the result of an operation's own logic; ret and by tell a result that a
\* reactor gave from it
Result(op, sub, err, ids) ==
    [op |-> op, sub |-> sub, err |-> err, ids |-> ids, ret |-> "logic", by |-> 0]

Unlocked_PullHolds == dlv.sub = 0 /\ pullWait = {}

\* GServer.mu is free: no deliver() call is inside its critical section
Unlocked == dlv.sub = 0

Running == ~panicked

DefaultTopicProto == [Labels |-> "old", MessageStoragePolicy |-> "old"]

newTopic(pt) == [proto |-> pt, subs |-> {}]

\* a pb.Subscription with the given name, topic, ack deadline and retention;
\* v is the value of each of its other fields
Subscription(name, topic, ads, mrd, v) ==
    [Name |-> name, Topic |-> topic, AckDeadlineSeconds |-> ads,
     MessageRetentionDuration |-> mrd, PushConfig |-> v,
     RetainAckedMessages |-> v, Labels |-> v, ExpirationPolicy |-> v,
     DeadLetterPolicy |-> v, RetryPolicy |-> v, Filter |-> v]

\* ---------------------------------------------------------- pure functions
checkAckDeadline(ads, minSecs) ==
    IF ads < minSecs \/ ads > maxAckDeadlineSecs THEN "Unknown" ELSE "OK"

checkMRD(mrd) ==
    IF mrd < minMessageRetentionDuration \/ mrd > maxMessageRetentionDuration
    THEN "InvalidArgument" ELSE "OK"

secsToDur(secs) == secs

outstanding(m) == m.ackDeadline # ZeroTime

makeAvailable(m) == [m EXCEPT !.ackDeadline = ZeroTime]

newSubscription(t, ps) ==
    [name |-> ps.Name,
     topic |-> t,
     proto |-> ps,
     ackTimeout |-> IF ps.AckDeadlineSeconds = 0 THEN defaultAckTimeout
                    ELSE ps.AckDeadlineSeconds,
     msgs |-> << >>,
     done |-> FALSE,
     streams |-> << >>]

\* the pending entry topic.publish creates
newMessage(pubTime) ==
    [publishTime |-> pubTime, ackDeadline |-> ZeroTime,
     streamIndex |-> NoStream, hasMessage |-> TRUE]

\* the record GServer.Publish creates
newRecord(pubTime, topic) ==
    [PublishTime |-> pubTime, deliveries |-> 0, acks |-> 0,
     modacks |-> << >>, topic |-> topic]

\* subscription.maintainMessages reads m.proto.Message.PublishTime of every
\* entry: an entry whose proto has no Message makes it dereference nil
maintainPanics(pending) == \E id \in DOMAIN pending : ~pending[id].hasMessage

expire_Early(m, t) ==
    IF outstanding(m) /\ t >= m.ackDeadline THEN makeAvailable(m) ELSE m

expire(m, t) ==
    IF outstanding(m) /\ t > m.ackDeadline THEN makeAvailable(m) ELSE m

maintainMessages(pending, t) ==
    LET kept == {id \in DOMAIN pending :
                    ~(~outstanding(expire(pending[id], t))
                      /\ t - pending[id].publishTime > retentionDuration)}
    IN [id \in kept |-> expire(pending[id], t)]

Available(pending) == {id \in DOMAIN pending : ~outstanding(pending[id])}

deleteStreamAt_Swap(s, i) ==
    [k \in 1 .. (Len(s) - 1) |-> IF k = i + 1 THEN s[Len(s)] ELSE s[k]]

deleteStreamAt(s, i) == SubSeq(s, 1, i) \o SubSeq(s, i + 2, Len(s))

\* subscription.tryDeliverMessage: the scan over s.streams from index start;
\* i and the indices are 0-based as in the source
RECURSIVE tryDeliverMessage_NoDone(_, _, _)
tryDeliverMessage_NoDone(strs, i, start) ==
    IF i >= Len(strs)
    THEN [ok |-> FALSE, idx |-> 0, streams |-> strs]
    ELSE LET idx == (i + start) % Len(strs)
             st == strs[idx + 1]
         IN IF streamObjs[st].pc # "returned"
            THEN [ok |-> TRUE, idx |-> idx, streams |-> strs]
            ELSE tryDeliverMessage_NoDone(strs, i + 1, start)

RECURSIVE tryDeliverMessage(_, _, _)
tryDeliverMessage(strs, i, start) ==
    IF i >= Len(strs)
    THEN [ok |-> FALSE, idx |-> 0, streams |-> strs]
    ELSE LET idx == (i + start) % Len(strs)
             st == strs[idx + 1]
         IN IF streamObjs[st].done
            THEN tryDeliverMessage(deleteStreamAt(strs, idx), i, start)
            ELSE IF streamObjs[st].pc = "select"
                 THEN [ok |-> TRUE, idx |-> idx, streams |-> strs]
                 ELSE tryDeliverMessage(strs, i + 1, start)

\* ------------------------------------------------------------------- Init
\* NewServer with the reactors of its options collected per operation name
NewServer(options) ==
    /\ topics = << >>
    /\ subs = << >>
    /\ subObjs = << >>
    /\ streamObjs = << >>
    /\ msgs = << >>
    /\ msgsByID = {}
    /\ messages = << >>
    /\ nextID = 0
    /\ now = 1
    /\ ticks = 0
    /\ minAckDeadlineSecs = defaultMinAckDeadlineSecs
    /\ dlv = NoDeliver
    /\ pullWait = {}
    /\ panicked = FALSE
    /\ last = Result("NewServer", 0, "OK", {})
    /\ reactorOptions = options
    /\ streamTimeout = 0
    /\ hIssued = << >>
    /\ hAcked = << >>
    /\ hLease = << >>

\* dsmock: no lock file yet, every caller idle
NoHolder == [pc |-> "idle", todo |-> {}, file |-> 0, em |-> 0, how |-> "none"]

\* the emulator pool and the datastore fake before their first call
OtherInit ==
    /\ lockFiles = << >>
    /\ holders = [h \in 1 .. MaxHolders |-> NoHolder]
    /\ objects = << >>
    /\ dsLast = [op |-> "NewFakeDatastore"]

Init == NewServer(<< >>) /\ OtherInit

brokerVars == <<topics, subs, subObjs, streamObjs, msgs, msgsByID, messages, nextID>>
envVars == <<now, ticks, minAckDeadlineSecs>>
taskVars == <<dlv, pullWait, panicked>>
histVars == <<hIssued, hAcked, hLease>>
configVars == <<reactorOptions, streamTimeout>>
poolVars == <<lockFiles, holders>>
dsVars == <<objects, dsLast>>
otherVars == <<poolVars, dsVars>>
pstestVars == <<configVars, brokerVars, envVars, taskVars, histVars, last>>

\* an API call that returns err and changes nothing
Fails(op, sub, err) ==
    /\ last' = Result(op, sub, err, {})
    /\ UNCHANGED <<configVars, otherVars, brokerVars, envVars, taskVars, histVars>>

\* a nil dereference inside an operation: the process ends
Panics(op, sub) ==
    /\ panicked' = TRUE
    /\ last' = Result(op, sub, "panic", {})
    /\ UNCHANGED <<configVars, otherVars, brokerVars, envVars, dlv, pullWait, histVars>>

\* ---------------------------------------------------------------- reactors
\* a reactor answers every request alike: handled, ret ("nil" for none) and
\* err ("nil" for none)
Reactor(handled, ret, err) == [handled |-> handled, ret |-> ret, err |-> err]

\* the loop of GServer.runReactor over the reactors val from index i
RECURSIVE reactLoop(_, _)
reactLoop(val, i) ==
    IF i > Len(val) THEN [handled |-> FALSE, ret |-> "nil", err |-> "nil", by |-> 0]
    ELSE IF val[i].handled \/ val[i].err # "nil"
         THEN [handled |-> TRUE,
               ret |-> IF val[i].ret = "nil" THEN "default" ELSE val[i].ret,
               err |-> val[i].err, by |-> i]
         ELSE reactLoop(val, i + 1)

\* GServer.runReactor
runReactor(funcName) ==
    IF funcName \in DOMAIN reactorOptions
    THEN reactLoop(reactorOptions[funcName], 1)
    ELSE [handled |-> FALSE, ret |-> "nil", err |-> "nil", by |-> 0]

\* a handler's return when runReactor reports handled: the lock was taken,
\* the reactor's result is returned and the handler's own logic is skipped
Handled(funcName) ==
    LET r == runReactor(funcName)
    IN /\ Running /\ Unlocked
       /\ last' = [op |-> funcName, sub |-> 0,
                   err |-> IF r.err = "nil" THEN "OK" ELSE r.err,
                   ids |-> {}, ret |-> r.ret, by |-> r.by]
       /\ UNCHANGED <<configVars, otherVars, brokerVars, envVars, taskVars, histVars>>

\* ------------------------------------------------------------ environment
Tick(d) ==
    /\ Running
    /\ ticks < MaxTicks
    /\ now' = now + d
    /\ ticks' = ticks + 1
    /\ last' = Result("Tick", 0, "OK", {})
    /\ UNCHANGED <<configVars, otherVars, brokerVars, minAckDeadlineSecs, taskVars, histVars>>

\* Server.SetStreamTimeout
SetStreamTimeout(d) ==
    /\ Running /\ Unlocked
    /\ streamTimeout' = d
    /\ last' = Result("SetStreamTimeout", 0, "OK", {})
    /\ UNCHANGED <<reactorOptions, otherVars, brokerVars, envVars, taskVars, histVars>>

SetMinAckDeadline(n) ==
    /\ Running
    /\ n >= 1
    /\ minAckDeadlineSecs' = n
    /\ last' = Result("SetMinAckDeadline", 0, "OK", {})
    /\ UNCHANGED <<configVars, otherVars, brokerVars, now, ticks, taskVars, histVars>>

ResetMinAckDeadline ==
    /\ Running
    /\ minAckDeadlineSecs' = defaultMinAckDeadlineSecs
    /\ last' = Result("ResetMinAckDeadline", 0, "OK", {})
    /\ UNCHANGED <<configVars, otherVars, brokerVars, now, ticks, taskVars, histVars>>

\* ----------------------------------------------------------------- topics
CreateTopic(t) ==
    IF runReactor("CreateTopic").handled THEN Handled("CreateTopic")
    ELSE
        /\ Running /\ Unlocked
        /\ IF t \in DOMAIN topics
           THEN Fails("CreateTopic", 0, "AlreadyExists")
           ELSE /\ topics' = With(topics, t, newTopic(DefaultTopicProto))
                /\ last' = Result("CreateTopic", 0, "OK", {})
                /\ UNCHANGED <<configVars, otherVars, subs, subObjs, streamObjs, msgs, msgsByID, messages,
                               nextID, envVars, taskVars, histVars>>

\* topic.stop: every attached subscription's proto names the deleted topic
topicStop_Drop(t) ==
    [o \in DOMAIN subObjs |->
        IF o \in topics[t].subs
        THEN [subObjs[o] EXCEPT !.proto.Topic = DeletedTopic, !.msgs = << >>]
        ELSE subObjs[o]]

topicStop(t) ==
    [o \in DOMAIN subObjs |->
        IF o \in topics[t].subs
        THEN [subObjs[o] EXCEPT !.proto.Topic = DeletedTopic]
        ELSE subObjs[o]]

DeleteTopic(t) ==
    IF runReactor("DeleteTopic").handled THEN Handled("DeleteTopic")
    ELSE
        /\ Running /\ Unlocked
        /\ IF t \notin DOMAIN topics
           THEN Fails("DeleteTopic", 0, "NotFound")
           ELSE /\ subObjs' = topicStop(t)
                /\ topics' = Without(topics, {t})
                /\ last' = Result("DeleteTopic", 0, "OK", {})
                /\ UNCHANGED <<configVars, otherVars, subs, streamObjs, msgs, msgsByID, messages, nextID,
                               envVars, taskVars, histVars>>

\* ---------------------------------------------------------- subscriptions
\* ps: the request; MessageRetentionDuration NoDuration when the request has none
CreateSubscription(ps) ==
    IF runReactor("CreateSubscription").handled THEN Handled("CreateSubscription")
    ELSE
        /\ Running /\ Unlocked
        /\ Len(subObjs) < MaxSubObjs
        /\ LET mrd == IF ps.MessageRetentionDuration = NoDuration
                      THEN maxMessageRetentionDuration
                      ELSE ps.MessageRetentionDuration
               stored == [ps EXCEPT !.MessageRetentionDuration = mrd]
               o == Len(subObjs) + 1
           IN IF ps.Name = "" THEN Fails("CreateSubscription", 0, "InvalidArgument")
              ELSE IF ps.Name \in DOMAIN subs
              THEN Fails("CreateSubscription", 0, "AlreadyExists")
              ELSE IF ps.Topic = "" THEN Fails("CreateSubscription", 0, "InvalidArgument")
              ELSE IF ps.Topic \notin DOMAIN topics
              THEN Fails("CreateSubscription", 0, "NotFound")
              ELSE IF checkAckDeadline(ps.AckDeadlineSeconds, minAckDeadlineSecs) # "OK"
              THEN Fails("CreateSubscription", 0,
                         checkAckDeadline(ps.AckDeadlineSeconds, minAckDeadlineSecs))
              ELSE IF checkMRD(mrd) # "OK"
              THEN Fails("CreateSubscription", 0, checkMRD(mrd))
              ELSE /\ subObjs' = Append(subObjs, newSubscription(ps.Topic, stored))
                   /\ topics' = [topics EXCEPT ![ps.Topic].subs = @ \cup {o}]
                   /\ subs' = With(subs, ps.Name, o)
                   /\ hAcked' = With(hAcked, o, {})
                   /\ hLease' = With(hLease, o, << >>)
                   /\ last' = Result("CreateSubscription", o, "OK", {})
                   /\ UNCHANGED <<configVars, otherVars, streamObjs, msgs, msgsByID, messages, nextID, envVars,
                                  taskVars, hIssued>>

\* GServer.findSubscription
findSubscription(name) ==
    IF name = "" THEN [err |-> "InvalidArgument", sub |-> 0]
    ELSE IF name \notin DOMAIN subs THEN [err |-> "NotFound", sub |-> 0]
    ELSE [err |-> "OK", sub |-> subs[name]]

\* ---------------------------------------------------------------- publish
\* topic.publish: one pending entry in every subscription attached to t
topicPublish_Created(objs, t, id, pubTime) ==
    [o \in DOMAIN objs |->
        IF objs[o].topic = t
        THEN [objs[o] EXCEPT !.msgs = With(@, id, newMessage(pubTime))]
        ELSE objs[o]]

topicPublish(objs, t, id, pubTime) ==
    [o \in DOMAIN objs |->
        IF o \in topics[t].subs
        THEN [objs[o] EXCEPT !.msgs = With(@, id, newMessage(pubTime))]
        ELSE objs[o]]

\* the loop of GServer.Publish over the k remaining messages of the request
RECURSIVE publishLoop(_, _, _)
publishLoop(k, t, st) ==
    IF k = 0 THEN st
    ELSE LET id == st.nextID
         IN publishLoop(k - 1, t,
               [nextID |-> st.nextID + 1,
                ids |-> Append(st.ids, id),
                objs |-> topicPublish(st.objs, t, id, now),
                msgs |-> Append(st.msgs, id),
                msgsByID |-> st.msgsByID \cup {id},
                messages |-> With(st.messages, id, newRecord(now, t))])

\* n: the number of messages in the request
Publish(t, n) ==
    IF runReactor("Publish").handled THEN Handled("Publish")
    ELSE
        /\ Running /\ Unlocked
        /\ nextID + n <= MaxMsgs
        /\ IF t = "" THEN Fails("Publish", 0, "InvalidArgument")
           ELSE IF t \notin DOMAIN topics THEN Fails("Publish", 0, "NotFound")
           ELSE LET st == publishLoop(n, t,
                            [nextID |-> nextID, ids |-> << >>, objs |-> subObjs,
                             msgs |-> msgs, msgsByID |-> msgsByID,
                             messages |-> messages])
                IN /\ nextID' = st.nextID
                   /\ subObjs' = st.objs
                   /\ msgs' = st.msgs
                   /\ msgsByID' = st.msgsByID
                   /\ messages' = st.messages
                   /\ hIssued' = hIssued \o st.ids
                   /\ last' = Result("Publish", 0, "OK", Range(st.ids))
                   /\ UNCHANGED <<configVars, otherVars, topics, subs, streamObjs, envVars, taskVars, hAcked, hLease>>

ClearMessages_Reset ==
    /\ Running /\ Unlocked
    /\ msgs' = << >>
    /\ msgsByID' = {}
    /\ nextID' = 0
    /\ last' = Result("ClearMessages", 0, "OK", {})
    /\ UNCHANGED <<configVars, otherVars, topics, subs, subObjs, streamObjs, messages, envVars,
                   taskVars, histVars>>

ClearMessages ==
    /\ Running /\ Unlocked
    /\ msgs' = << >>
    /\ msgsByID' = {}
    /\ last' = Result("ClearMessages", 0, "OK", {})
    /\ UNCHANGED <<configVars, otherVars, topics, subs, subObjs, streamObjs, messages, nextID, envVars,
                   taskVars, histVars>>

\* ------------------------------------------------------------------- pull
\* history of leases: the leases that have lapsed at time t are forgotten
lapse(leases, t) ==
    [id \in {i \in DOMAIN leases : ~(t > leases[i])} |-> leases[id]]

\* history of leases restricted to the entries still pending
leasesOf(leases, pending) ==
    [id \in (DOMAIN leases) \cap (DOMAIN pending) |-> leases[id]]

pullChoices_All(pending, max) == {Available(pending)}

\* the ids subscription.pull may return: the map is ranged over in any
\* order and the loop stops once max messages are taken
pullChoices(pending, max) ==
    {D \in SUBSET Available(pending) :
        Cardinality(D) = Min(max, Cardinality(Available(pending)))}

\* the pending set once subscription.pull has leased the ids in D
pulled(pending, D, t, ackTimeout) ==
    [id \in DOMAIN pending |->
        IF id \in D THEN [pending[id] EXCEPT !.ackDeadline = t + ackTimeout]
        ELSE pending[id]]

delivered(recs, D) ==
    [id \in DOMAIN recs |->
        IF id \in D THEN [recs[id] EXCEPT !.deliveries = @ + 1] ELSE recs[id]]

\* subscription.pull on object o; waiting: the calls that stay in their wait
subPull(o, max, wait, waiting) ==
    IF maintainPanics(subObjs[o].msgs) THEN Panics("Pull", o)
    ELSE LET kept == maintainMessages(subObjs[o].msgs, now)
         IN \E D \in pullChoices(kept, max) :
              /\ subObjs' = [subObjs EXCEPT
                     ![o].msgs = pulled(kept, D, now, subObjs[o].ackTimeout)]
              /\ messages' = delivered(messages, D)
              /\ hLease' = [hLease EXCEPT ![o] =
                     [id \in (DOMAIN leasesOf(lapse(@, now), kept)) \cup D |->
                         IF id \in D THEN now + subObjs[o].ackTimeout ELSE @[id]]]
              /\ IF D = {} /\ wait
                 THEN /\ pullWait' = waiting \cup {[sub |-> o, max |-> max]}
                      /\ last' = Result("PullWait", o, "OK", {})
                 ELSE /\ pullWait' = waiting
                      /\ last' = Result("Pull", o, "OK", D)
              /\ UNCHANGED <<configVars, otherVars, topics, subs, streamObjs, msgs, msgsByID, nextID,
                             envVars, dlv, panicked, hIssued, hAcked>>

Pull(s, maxMessages, returnImmediately) ==
    IF runReactor("Pull").handled THEN Handled("Pull")
    ELSE
        /\ Running /\ Unlocked
        /\ LET f == findSubscription(s)
           IN IF f.err # "OK" THEN Fails("Pull", 0, f.err)
              ELSE IF maxMessages < 0 THEN Fails("Pull", f.sub, "InvalidArgument")
              ELSE subPull(f.sub,
                           IF maxMessages = 0 THEN defaultMaxMessages ELSE maxMessages,
                           ~returnImmediately, pullWait)

PullRetry_Again(w) ==
    /\ Running /\ Unlocked
    /\ w \in pullWait
    /\ subPull(w.sub, w.max, TRUE, pullWait \ {w})

\* the 500 ms of the long poll are over: the one retry
PullRetry(w) ==
    /\ Running /\ Unlocked
    /\ w \in pullWait
    /\ subPull(w.sub, w.max, FALSE, pullWait \ {w})

\* the caller's context is done during the long poll
PullCancel(w) ==
    /\ Running
    /\ w \in pullWait
    /\ pullWait' = pullWait \ {w}
    /\ last' = Result("Pull", w.sub, "Canceled", {})
    /\ UNCHANGED <<configVars, otherVars, brokerVars, envVars, dlv, panicked, histVars>>

\* ------------------------------------------------------------ acknowledge
ackAll_Keep(pending, ids) == pending

\* subscription.ack for every id of ids
ackAll(pending, ids) == Without(pending, ids)

acked(recs, hit) ==
    [id \in DOMAIN recs |->
        IF id \in hit THEN [recs[id] EXCEPT !.acks = @ + 1] ELSE recs[id]]

Acknowledge(s, ids) ==
    IF runReactor("Acknowledge").handled THEN Handled("Acknowledge")
    ELSE
        /\ Running /\ Unlocked
        /\ LET f == findSubscription(s)
               o == f.sub
           IN IF f.err # "OK" THEN Fails("Acknowledge", 0, f.err)
              ELSE LET hit == ids \cap DOMAIN subObjs[o].msgs
                   IN /\ subObjs' = [subObjs EXCEPT ![o].msgs = ackAll(@, ids)]
                      /\ messages' = acked(messages, hit)
                      /\ hAcked' = [hAcked EXCEPT ![o] = @ \cup hit]
                      /\ hLease' = [hLease EXCEPT ![o] = Without(@, hit)]
                      /\ last' = Result("Acknowledge", o, "OK", ids)
                      /\ UNCHANGED <<configVars, otherVars, topics, subs, streamObjs, msgs, msgsByID, nextID,
                                     envVars, taskVars, hIssued>>

\* subscription.modifyAckDeadline for every id of ids
modifyAckDeadline(pending, ids, d, t) ==
    [id \in DOMAIN pending |->
        IF id \notin ids THEN pending[id]
        ELSE IF d = 0 THEN makeAvailable(pending[id])
        ELSE [pending[id] EXCEPT !.ackDeadline = t + d]]

\* the history of leases after modifyAckDeadline
modifiedLeases(leases, pending, ids, d, t) ==
    LET hit == ids \cap DOMAIN pending
    IN IF d = 0 THEN Without(leases, hit)
       ELSE [id \in (DOMAIN leases) \cup hit |->
                IF id \in hit THEN t + d ELSE leases[id]]

\* the audit log: one Modack per id of the request
modacked(recs, ids, secs, t) ==
    [id \in DOMAIN recs |->
        IF id \in ids
        THEN [recs[id] EXCEPT !.modacks =
                 Append(@, [AckDeadline |-> secs, ReceivedAt |-> t])]
        ELSE recs[id]]

ModifyAckDeadline(s, ids, secs) ==
    IF runReactor("ModifyAckDeadline").handled THEN Handled("ModifyAckDeadline")
    ELSE
        /\ Running /\ Unlocked
        /\ \A id \in ids \cap msgsByID : Len(messages[id].modacks) < MaxModacks
        /\ LET f == findSubscription(s)
               o == f.sub
           IN IF f.err # "OK" THEN Fails("ModifyAckDeadline", 0, f.err)
              ELSE IF \E id \in ids : id \notin msgsByID
              THEN Panics("ModifyAckDeadline", o)
              ELSE /\ messages' = modacked(messages, ids, secs, now)
                   /\ subObjs' = [subObjs EXCEPT
                          ![o].msgs = modifyAckDeadline(@, ids, secsToDur(secs), now)]
                   /\ hLease' = [hLease EXCEPT
                          ![o] = modifiedLeases(@, subObjs[o].msgs, ids, secsToDur(secs), now)]
                   /\ last' = Result("ModifyAckDeadline", o, "OK", ids)
                   /\ UNCHANGED <<configVars, otherVars, topics, subs, streamObjs, msgs, msgsByID, nextID,
                                  envVars, taskVars, hIssued, hAcked>>

\* ---------------------------------------------------------------- streams
\* subscription.newStream; pc is the place of the stream's sendLoop; asked
\* records the last positive StreamAckDeadlineSeconds a request of the call
\* carried (no code reads it)
newStream(o) ==
    [sub |-> o, done |-> FALSE, ackTimeout |-> subObjs[o].ackTimeout,
     pc |-> "select", ended |-> FALSE, timeout |-> streamTimeout,
     recv |-> TRUE, result |-> "running", asked |-> 0]

\* GServer.StreamingPull up to the start of stream.pull; of the initial
\* request only Subscription is read, streamAck is its
\* StreamAckDeadlineSeconds
StreamingPull(s, streamAck) ==
    /\ Running /\ Unlocked
    /\ Len(streamObjs) < MaxStreams + 1
    /\ LET f == findSubscription(s)
           o == f.sub
           st == Len(streamObjs) + 1
       IN IF f.err # "OK" THEN Fails("StreamingPull", 0, f.err)
          ELSE /\ streamObjs' = Append(streamObjs,
                      [newStream(o) EXCEPT !.asked = streamAck])
               /\ subObjs' = [subObjs EXCEPT ![o].streams = Append(@, st)]
               /\ last' = Result("StreamingPull", o, "OK", {})
               /\ UNCHANGED <<configVars, otherVars, topics, subs, msgs, msgsByID, messages, nextID,
                              envVars, taskVars, hIssued, hAcked, hLease>>

\* stream.sendLoop: gstream.Send has returned nil, back to the select
SendDone(st) ==
    /\ Running
    /\ st \in DOMAIN streamObjs
    /\ streamObjs[st].pc = "Send"
    /\ streamObjs' = [streamObjs EXCEPT
           ![st].pc = IF streamObjs[st].done THEN "returned" ELSE "select"]
    /\ last' = Result("Send", streamObjs[st].sub, "OK", {})
    /\ UNCHANGED <<configVars, otherVars, topics, subs, subObjs, msgs, msgsByID, messages, nextID,
                   envVars, taskVars, histVars>>

\* stream.recvLoop: one request handled by handleStreamingPullRequest;
\* streamAck: its StreamAckDeadlineSeconds
StreamRecv(st, ackIds, modIds, modSecs, streamAck) ==
    /\ Running /\ Unlocked
    /\ st \in DOMAIN streamObjs
    /\ ~streamObjs[st].ended /\ streamObjs[st].recv
    /\ modSecs = 0 => \A id \in modIds \cap DOMAIN messages :
                         messages[id].deliveries < MaxDeliveries
    /\ LET o == streamObjs[st].sub
           hit == ackIds \cap DOMAIN subObjs[o].msgs
           afterAck == ackAll(subObjs[o].msgs, ackIds)
       IN /\ subObjs' = [subObjs EXCEPT ![o].msgs =
                 modifyAckDeadline(afterAck, modIds, secsToDur(modSecs), now)]
          /\ messages' = acked(messages, hit)
          /\ streamObjs' = [streamObjs EXCEPT
                 ![st].ackTimeout = IF streamAck > 0 THEN secsToDur(streamAck) ELSE @,
                 ![st].asked = IF streamAck > 0 THEN streamAck ELSE @]
          /\ hAcked' = [hAcked EXCEPT ![o] = @ \cup hit]
          /\ hLease' = [hLease EXCEPT ![o] =
                 modifiedLeases(Without(@, hit), afterAck, modIds,
                                secsToDur(modSecs), now)]
          /\ last' = Result("StreamRecv", o, "OK", ackIds)
          /\ UNCHANGED <<configVars, otherVars, topics, subs, msgs, msgsByID, nextID, envVars, taskVars,
                         hIssued>>

\* what ends the select of stream.pull: the inbound half returns io.EOF or
\* another error, the outbound half returns the error of Send, or the
\* stream's timeout fires
Causes == {"EOF", "RecvError", "SendError", "Timeout"}

pullResult_Raw(cause) ==
    CASE cause = "EOF" -> "EOF"
      [] cause = "Timeout" -> "nil"
      [] OTHER -> "Unavailable"

\* the error stream.pull returns
pullResult(cause) ==
    CASE cause = "EOF" -> "nil"
      [] cause = "Timeout" -> "nil"
      [] OTHER -> "Unavailable"

\* stream.pull from its select to its return: close(st.done) wakes a
\* sendLoop that waits in its select
StreamEnd(st, cause) ==
    /\ Running
    /\ st \in DOMAIN streamObjs
    /\ ~streamObjs[st].done
    /\ cause = "Timeout" => streamObjs[st].timeout > 0
    /\ cause = "SendError" => streamObjs[st].pc = "Send"
    /\ streamObjs' = [streamObjs EXCEPT
           ![st].done = TRUE,
           ![st].pc = IF @ = "select" \/ cause = "SendError" THEN "returned" ELSE @,
           ![st].recv = cause \notin {"EOF", "RecvError"},
           ![st].result = pullResult(cause)]
    /\ last' = Result("StreamEnd", streamObjs[st].sub, pullResult(cause), {})
    /\ UNCHANGED <<configVars, otherVars, topics, subs, subObjs, msgs, msgsByID, messages, nextID,
                   envVars, taskVars, histVars>>

\* subscription.deleteStream
deleteStream(strs, st) ==
    IF \E i \in 1 .. Len(strs) : strs[i] = st
    THEN deleteStreamAt(strs, (CHOOSE i \in 1 .. Len(strs) : strs[i] = st) - 1)
    ELSE strs

StreamDelete_Release(st) ==
    /\ Running /\ Unlocked
    /\ st \in DOMAIN streamObjs
    /\ streamObjs[st].done /\ ~streamObjs[st].ended
    /\ subObjs' = [subObjs EXCEPT
           ![streamObjs[st].sub].streams = deleteStream(@, st),
           ![streamObjs[st].sub].msgs = [id \in DOMAIN @ |-> makeAvailable(@[id])]]
    /\ streamObjs' = [streamObjs EXCEPT ![st].ended = TRUE]
    /\ last' = Result("StreamDelete", streamObjs[st].sub, "OK", {})
    /\ UNCHANGED <<configVars, otherVars, topics, subs, msgs, msgsByID, messages, nextID, envVars,
                   taskVars, histVars>>

\* GServer.StreamingPull after stream.pull has returned
StreamDelete(st) ==
    /\ Running /\ Unlocked
    /\ st \in DOMAIN streamObjs
    /\ streamObjs[st].done /\ ~streamObjs[st].ended
    /\ subObjs' = [subObjs EXCEPT
           ![streamObjs[st].sub].streams = deleteStream(@, st)]
    /\ streamObjs' = [streamObjs EXCEPT ![st].ended = TRUE]
    /\ last' = Result("StreamDelete", streamObjs[st].sub, "OK", {})
    /\ UNCHANGED <<configVars, otherVars, topics, subs, msgs, msgsByID, messages, nextID, envVars,
                   taskVars, histVars>>

\* ---------------------------------------------------------------- deliver
allReady(strs) ==
    \A i \in 1 .. Len(strs) :
        ~streamObjs[strs[i]].done /\ streamObjs[strs[i]].pc = "select"

\* subscription.deliver, from taking the lock to the first message
DeliverBegin(o) ==
    /\ Running /\ Unlocked
    /\ o \in DOMAIN subObjs
    /\ ~subObjs[o].done
    /\ IF maintainPanics(subObjs[o].msgs) THEN Panics("deliver", o)
       ELSE LET kept == maintainMessages(subObjs[o].msgs, now)
                todo == Available(kept)
            IN /\ subObjs' = [subObjs EXCEPT ![o].msgs = kept]
               /\ hLease' = [hLease EXCEPT ![o] = leasesOf(lapse(@, now), kept)]
               /\ dlv' = IF todo = {} THEN NoDeliver
                         ELSE [sub |-> o, now |-> now, curIndex |-> 0, todo |-> todo]
               /\ last' = Result("deliverBegin", o, "OK", {})
               /\ UNCHANGED <<configVars, otherVars, topics, subs, streamObjs, msgs, msgsByID, messages,
                              nextID, envVars, pullWait, panicked, hIssued, hAcked>>

DeliverStep_Blocking(id) ==
    /\ Running /\ ~Unlocked
    /\ id \in dlv.todo
    /\ LET o == dlv.sub
           m == subObjs[o].msgs[id]
           fresh == m.streamIndex < 0
           r == tryDeliverMessage(subObjs[o].streams, 0,
                                  IF fresh THEN dlv.curIndex ELSE m.streamIndex)
           st == r.streams[r.idx + 1]
           rest == dlv.todo \ {id}
       IN /\ r.ok
          /\ subObjs' = [subObjs EXCEPT
                 ![o].streams = r.streams,
                 ![o].msgs[id] = [m EXCEPT
                     !.ackDeadline = dlv.now + streamObjs[st].ackTimeout,
                     !.streamIndex = IF fresh THEN r.idx + 1 ELSE r.idx]]
          /\ messages' = delivered(messages, {id})
          /\ streamObjs' = [streamObjs EXCEPT ![st].pc = "Send"]
          /\ dlv' = IF rest = {} THEN NoDeliver
                    ELSE [dlv EXCEPT
                             !.todo = rest,
                             !.curIndex = IF fresh THEN r.idx + 1 ELSE @]
          /\ hLease' = [hLease EXCEPT ![o] =
                 With(@, id, dlv.now + streamObjs[st].ackTimeout)]
          /\ last' = Result("deliver", o, "OK", {id})
          /\ UNCHANGED <<configVars, otherVars, topics, subs, msgs, msgsByID, nextID, envVars,
                         pullWait, panicked, hIssued, hAcked>>

\* subscription.deliver: the next message of the range over s.msgs
DeliverStep(id) ==
    /\ Running /\ ~Unlocked
    /\ id \in dlv.todo
    /\ LET o == dlv.sub
           m == subObjs[o].msgs[id]
           fresh == m.streamIndex < 0
           r == tryDeliverMessage(subObjs[o].streams, 0,
                                  IF fresh THEN dlv.curIndex ELSE m.streamIndex)
           st == r.streams[r.idx + 1]
           rest == dlv.todo \ {id}
       IN IF ~r.ok
          THEN /\ subObjs' = [subObjs EXCEPT ![o].streams = r.streams]
               /\ dlv' = NoDeliver
               /\ last' = Result("deliver", o, "busy", {})
               /\ UNCHANGED <<configVars, otherVars, topics, subs, streamObjs, msgs, msgsByID, messages,
                              nextID, envVars, pullWait, panicked, histVars>>
          ELSE /\ subObjs' = [subObjs EXCEPT
                      ![o].streams = r.streams,
                      ![o].msgs[id] = [m EXCEPT
                          !.ackDeadline = dlv.now + streamObjs[st].ackTimeout,
                          !.streamIndex = IF fresh THEN r.idx + 1 ELSE r.idx]]
               /\ messages' = delivered(messages, {id})
               /\ streamObjs' = [streamObjs EXCEPT ![st].pc = "Send"]
               /\ dlv' = IF rest = {} THEN NoDeliver
                         ELSE [dlv EXCEPT
                                  !.todo = rest,
                                  !.curIndex = IF fresh THEN r.idx + 1 ELSE @]
               /\ hLease' = [hLease EXCEPT ![o] =
                      With(@, id, dlv.now + streamObjs[st].ackTimeout)]
               /\ last' = Result("deliver", o, "OK", {id})
               /\ UNCHANGED <<configVars, otherVars, topics, subs, msgs, msgsByID, nextID, envVars,
                              pullWait, panicked, hIssued, hAcked>>

\* ----------------------------------------------------------------- update
\* the loop of GServer.UpdateSubscription over the mask paths from index i:
\* each path is applied to the stored proto as it is met
RECURSIVE updateSubscriptionPaths(_, _, _, _, _)
updateSubscriptionPaths(proto, req, paths, i, minSecs) ==
    IF i > Len(paths) THEN [err |-> "OK", proto |-> proto]
    ELSE LET path == paths[i]
             next(p) == updateSubscriptionPaths(p, req, paths, i + 1, minSecs)
         IN CASE path = "push_config" ->
                    next([proto EXCEPT !.PushConfig = req.PushConfig])
              [] path = "ack_deadline_seconds" ->
                    IF checkAckDeadline(req.AckDeadlineSeconds, minSecs) # "OK"
                    THEN [err |-> checkAckDeadline(req.AckDeadlineSeconds, minSecs),
                          proto |-> proto]
                    ELSE next([proto EXCEPT
                                  !.AckDeadlineSeconds = req.AckDeadlineSeconds])
              [] path = "retain_acked_messages" ->
                    next([proto EXCEPT !.RetainAckedMessages = req.RetainAckedMessages])
              [] path = "message_retention_duration" ->
                    IF checkMRD(req.MessageRetentionDuration) # "OK"
                    THEN [err |-> checkMRD(req.MessageRetentionDuration),
                          proto |-> proto]
                    ELSE next([proto EXCEPT !.MessageRetentionDuration =
                                  req.MessageRetentionDuration])
              [] path = "labels" -> next([proto EXCEPT !.Labels = req.Labels])
              [] path = "expiration_policy" ->
                    next([proto EXCEPT !.ExpirationPolicy = req.ExpirationPolicy])
              [] path = "dead_letter_policy" ->
                    next([proto EXCEPT !.DeadLetterPolicy = req.DeadLetterPolicy])
              [] path = "retry_policy" ->
                    next([proto EXCEPT !.RetryPolicy = req.RetryPolicy])
              [] path = "filter" -> next([proto EXCEPT !.Filter = req.Filter])
              [] OTHER -> [err |-> "InvalidArgument", proto |-> proto]

\* req: the request's subscription; paths: its update mask
UpdateSubscription(req, paths) ==
    IF runReactor("UpdateSubscription").handled THEN Handled("UpdateSubscription")
    ELSE
        /\ Running /\ Unlocked
        /\ LET f == findSubscription(req.Name)
               o == f.sub
               r == updateSubscriptionPaths(subObjs[o].proto, req, paths, 1,
                                            minAckDeadlineSecs)
           IN IF f.err # "OK" THEN Fails("UpdateSubscription", 0, f.err)
              ELSE /\ subObjs' = [subObjs EXCEPT ![o].proto = r.proto]
                   /\ last' = Result("UpdateSubscription", o, r.err, {})
                   /\ UNCHANGED <<configVars, otherVars, topics, subs, streamObjs, msgs, msgsByID, messages,
                                  nextID, envVars, taskVars, histVars>>

\* the loop of GServer.UpdateTopic over the mask paths from index i
RECURSIVE updateTopicPaths(_, _, _, _)
updateTopicPaths(proto, req, paths, i) ==
    IF i > Len(paths) THEN [err |-> "OK", proto |-> proto]
    ELSE LET path == paths[i]
             next(p) == updateTopicPaths(p, req, paths, i + 1)
         IN CASE path = "labels" -> next([proto EXCEPT !.Labels = req.Labels])
              [] path = "message_storage_policy" ->
                    next([proto EXCEPT !.MessageStoragePolicy =
                             req.MessageStoragePolicy])
              [] OTHER -> [err |-> "InvalidArgument", proto |-> proto]

\* t: the name in the request's topic; req: its other fields
UpdateTopic(t, req, paths) ==
    IF runReactor("UpdateTopic").handled THEN Handled("UpdateTopic")
    ELSE
        /\ Running /\ Unlocked
        /\ IF t \notin DOMAIN topics THEN Fails("UpdateTopic", 0, "NotFound")
           ELSE LET r == updateTopicPaths(topics[t].proto, req, paths, 1)
                IN /\ topics' = [topics EXCEPT ![t].proto = r.proto]
                   /\ last' = Result("UpdateTopic", 0, r.err, {})
                   /\ UNCHANGED <<configVars, otherVars, subs, subObjs, streamObjs, msgs, msgsByID, messages,
                                  nextID, envVars, taskVars, histVars>>

\* ------------------------------------------------------- delete and detach
DeleteSubscription_Keep(s) ==
    /\ Running /\ Unlocked
    /\ LET f == findSubscription(s)
           o == f.sub
       IN IF f.err # "OK" THEN Fails("DeleteSubscription", 0, f.err)
          ELSE /\ subObjs' = [subObjs EXCEPT ![o].done = TRUE]
               /\ subs' = Without(subs, {s})
               /\ last' = Result("DeleteSubscription", o, "OK", {})
               /\ UNCHANGED <<configVars, otherVars, topics, streamObjs, msgs, msgsByID, messages,
                              nextID, envVars, taskVars, histVars>>

\* GServer.GetSubscription: returns the stored proto of the subscription
GetSubscription(s) ==
    IF runReactor("GetSubscription").handled THEN Handled("GetSubscription")
    ELSE
        /\ Running /\ Unlocked
        /\ LET f == findSubscription(s)
           IN Fails("GetSubscription", f.sub, f.err)

DeleteSubscription(s) ==
    IF runReactor("DeleteSubscription").handled THEN Handled("DeleteSubscription")
    ELSE
        /\ Running /\ Unlocked
        /\ LET f == findSubscription(s)
               o == f.sub
           IN IF f.err # "OK" THEN Fails("DeleteSubscription", 0, f.err)
              ELSE /\ subObjs' = [subObjs EXCEPT ![o].done = TRUE]
                   /\ subs' = Without(subs, {s})
                   /\ topics' = [t \in DOMAIN topics |->
                                    [topics[t] EXCEPT !.subs = @ \ {o}]]
                   /\ last' = Result("DeleteSubscription", o, "OK", {})
                   /\ UNCHANGED <<configVars, otherVars, streamObjs, msgs, msgsByID, messages, nextID,
                                  envVars, taskVars, histVars>>

DetachSubscription(s) ==
    IF runReactor("DetachSubscription").handled THEN Handled("DetachSubscription")
    ELSE
        /\ Running /\ Unlocked
        /\ LET f == findSubscription(s)
               o == f.sub
           IN IF f.err # "OK" THEN Fails("DetachSubscription", 0, f.err)
              ELSE /\ topics' = [t \in DOMAIN topics |->
                                    [topics[t] EXCEPT !.subs = @ \ {o}]]
                   /\ last' = Result("DetachSubscription", o, "OK", {})
                   /\ UNCHANGED <<configVars, otherVars, subs, subObjs, streamObjs, msgs, msgsByID, messages,
                                  nextID, envVars, taskVars, histVars>>

\* ------------------------------------------------------------------- seek
\* the entry GServer.Seek inserts: its proto carries no Message
seekMessage(pubTime) ==
    [publishTime |-> pubTime, ackDeadline |-> ZeroTime,
     streamIndex |-> NoStream, hasMessage |-> FALSE]

\* targets that are not times: none given, and a snapshot
NoTarget == -1

SnapshotTarget == -2

seekDropped_Late(pending, target) ==
    {id \in DOMAIN pending : pending[id].publishTime + 1 < target}

\* the first loop of GServer.Seek: the pending entries published before target
seekDropped(pending, target) ==
    {id \in DOMAIN pending : pending[id].publishTime < target}

\* the second loop of GServer.Seek: the log's records not published before
\* target
seekBack(target) ==
    {id \in Range(msgs) : ~(messages[id].PublishTime < target)}

\* target: the time of a time-based request, or NoTarget or SnapshotTarget
Seek(s, target) ==
    /\ Running /\ Unlocked
    /\ LET f == findSubscription(s)
           o == f.sub
           pending == subObjs[o].msgs
           dropped == seekDropped(pending, target)
           back == seekBack(target)
       IN IF target = NoTarget THEN Fails("Seek", 0, "InvalidArgument")
          ELSE IF target = SnapshotTarget THEN Fails("Seek", 0, "Unimplemented")
          ELSE IF runReactor("Seek").handled THEN Handled("Seek")
          ELSE (IF f.err # "OK" THEN Fails("Seek", 0, f.err)
               ELSE /\ subObjs' = [subObjs EXCEPT ![o].msgs =
                           [id \in ((DOMAIN pending) \ dropped) \cup back |->
                               IF id \in back
                               THEN seekMessage(messages[id].PublishTime)
                               ELSE pending[id]]]
                    /\ messages' = acked(messages, dropped)
                    /\ hLease' = [hLease EXCEPT ![o] = Without(@, dropped)]
                    /\ last' = Result("Seek", o, "OK", {})
                    /\ UNCHANGED <<configVars, otherVars, topics, subs, streamObjs, msgs,
                                   msgsByID, nextID, envVars, taskVars, hIssued,
                                   hAcked>>)

\* ------------------------------------------------------ the environment
\* ids a caller may name: the ids Publish can issue and one it never issues
AckIds == 0 .. MaxMsgs

\* tests lower the minimum ack deadline to one second
DoSetMinAckDeadline == minAckDeadlineSecs # 1 /\ SetMinAckDeadline(1)

DoCreateTopic == "t1" \notin DOMAIN topics /\ CreateTopic("t1")

DoCreateSubscription ==
    /\ "s1" \notin DOMAIN subs
    /\ CreateSubscription(Subscription("s1", "t1", 1, NoDuration, "old"))

DoPublish == \E n \in 1 .. MaxMsgs : Publish("t1", n)

DoPull == \E max \in {0, 1} : Pull("s1", max, TRUE)

DoAcknowledge == \E id \in MsgIds : Acknowledge("s1", {id})

DoModifyAckDeadline ==
    \E id \in MsgIds, secs \in {0, 2} : ModifyAckDeadline("s1", {id}, secs)

DoTick == Tick(1)

DoStreamingPull == Len(streamObjs) < MaxStreams /\ StreamingPull("s1", 0)

DoSendDone == \E st \in DOMAIN streamObjs : SendDone(st)

DoDeliverBegin == \E o \in DOMAIN subObjs : DeliverBegin(o)

DoDeliverStep == \E id \in MsgIds : DeliverStep(id)

\* --------------------------------------------------------------------------
\* Spec: one subscription served by unary Pull and by one stream
\* --------------------------------------------------------------------------
OneStream == Len(streamObjs) < MaxStreams - 1 /\ DoStreamingPull

Next ==
    \/ DoSetMinAckDeadline
    \/ DoCreateTopic
    \/ DoCreateSubscription
    \/ DoPublish
    \/ DoPull
    \/ DoAcknowledge
    \/ DoModifyAckDeadline
    \/ DoTick
    \/ OneStream
    \/ DoSendDone
    \/ DoDeliverBegin
    \/ DoDeliverStep

Spec == Init /\ [][Next]_vars

\* --------------------------------------------------------------------------
\* SpecClear: unary calls on two topics, with ClearMessages and with ids
\* that are not pending
\* --------------------------------------------------------------------------
ClearCreateTopic == \E t \in TopicNames : t \notin DOMAIN topics /\ CreateTopic(t)

ClearPublish == \E t \in TopicNames, n \in 1 .. MaxMsgs : Publish(t, n)

ClearAcknowledge == \E id \in AckIds : Acknowledge("s1", {id})

ClearModifyAckDeadline ==
    \E id \in AckIds, secs \in {0, 2} : ModifyAckDeadline("s1", {id}, secs)

NextClear ==
    \/ DoSetMinAckDeadline
    \/ ClearCreateTopic
    \/ DoCreateSubscription
    \/ ClearPublish
    \/ ClearMessages
    \/ DoPull
    \/ ClearAcknowledge
    \/ ClearModifyAckDeadline
    \/ DoTick

SpecClear == Init /\ [][NextClear]_vars

\* ==========================================================================
\* The claims
\* ==========================================================================

\* C1: every id Publish issues is greater than every id issued before it, in
\* the order of the request's messages, whatever ClearMessages and the other
\* operations do in between.
C1_IdsIncrease ==
    \A i, j \in DOMAIN hIssued : i < j => hIssued[i] < hIssued[j]

\* a Publish after ClearMessages has dropped the earlier records
C1_Witness ==
    /\ last.op = "Publish" /\ last.ids # {}
    /\ Len(hIssued) >= 2
    /\ Len(msgs) < Len(hIssued)

\* C2: once an id has been acknowledged on a subscription, no later Pull on
\* that subscription returns it.
C2_NoPullAfterAck ==
    (last.op = "Pull" /\ last.err = "OK") => last.ids \cap hAcked[last.sub] = {}

\* a Pull that returns a message after another, delivered one was acknowledged
C2_Witness ==
    /\ last.op = "Pull" /\ last.err = "OK" /\ last.ids # {}
    /\ \E id \in hAcked[last.sub] : messages[id].deliveries >= 1

\* the step delivers id from subscription object o
Delivers(o, id) ==
    /\ last'.op \in {"Pull", "deliver"}
    /\ last'.sub = o
    /\ id \in last'.ids
    /\ messages'[id].deliveries = messages[id].deliveries + 1

\* C3: a message leased from a subscription and neither acknowledged nor
\* nacked is delivered again from it only when the clock has passed the
\* lease's expiry.
C3_NoEarlyRedelivery ==
    [][\A o \in DOMAIN subObjs, id \in MsgIds :
          Delivers(o, id) => (id \notin DOMAIN hLease[o] \/ now > hLease[o][id])]_vars

\* a message delivered a second time with no nack or ack in between
C3_Witness ==
    /\ last.op \in {"Pull", "deliver"}
    /\ \E id \in last.ids :
          /\ messages[id].deliveries >= 2
          /\ messages[id].modacks = << >>
          /\ messages[id].acks = 0

\* the pending entry of id in the subscription named s is Leased
Leased(s, id) ==
    /\ s \in DOMAIN subs
    /\ id \in DOMAIN subObjs[subs[s]].msgs
    /\ outstanding(subObjs[subs[s]].msgs[id])

\* C4: ModifyAckDeadline on a Leased pending message makes it Available at
\* once when the deadline is 0, and sets its lease to end at the call time
\* plus the deadline otherwise.
C4_ModifyLeased ==
    [][\A id \in MsgIds, secs \in {0, 2} :
          (Leased("s1", id) /\ ModifyAckDeadline("s1", {id}, secs))
          => LET m == subObjs'[subs["s1"]].msgs[id]
             IN IF secs = 0 THEN ~outstanding(m)
                ELSE m.ackDeadline = now + secs]_vars

\* the id is not pending in the subscription named s
NotPending(s, id) ==
    /\ s \in DOMAIN subs
    /\ id \notin DOMAIN subObjs[subs[s]].msgs

\* C6: Acknowledge and ModifyAckDeadline with an id that is not pending in
\* the subscription (acknowledged before, never issued, or dropped by
\* ClearMessages) succeed and leave the pending set as it was.
C6_Idempotent ==
    [][\A id \in AckIds, secs \in {0, 2} :
          (/\ NotPending("s1", id)
           /\ \/ Acknowledge("s1", {id})
              \/ ModifyAckDeadline("s1", {id}, secs))
          => /\ last'.err = "OK"
             /\ ~panicked'
             /\ subObjs'[subs["s1"]].msgs = subObjs[subs["s1"]].msgs]_vars

\* ==========================================================================
\* Creating and updating subscriptions and topics
\* ==========================================================================
AckDeadlines == {0, 1, 5, 600, 601}

Retentions == {minMessageRetentionDuration - 1, minMessageRetentionDuration}

OtherPaths == <<"retain_acked_messages", "expiration_policy",
                "dead_letter_policy", "retry_policy", "filter">>

SubscriptionPaths ==
    {<<"labels">>, <<"push_config">>, <<"ack_deadline_seconds">>,
     <<"message_retention_duration">>, <<"bogus">>, OtherPaths,
     <<"labels", "ack_deadline_seconds">>, <<"labels", "bogus">>,
     <<"push_config", "message_retention_duration">>}

TopicPaths ==
    {<<"labels">>, <<"message_storage_policy">>, <<"bogus">>,
     <<"labels", "bogus">>}

UpdSetMinAckDeadline ==
    \/ minAckDeadlineSecs # 1 /\ SetMinAckDeadline(1)
    \/ minAckDeadlineSecs # defaultMinAckDeadlineSecs /\ ResetMinAckDeadline

UpdCreateSubscription ==
    \E s \in SubNames, ads \in AckDeadlines :
        CreateSubscription(Subscription(s, "t1", ads, NoDuration, "old"))

UpdUpdateSubscription ==
    \E ads \in AckDeadlines, mrd \in Retentions, paths \in SubscriptionPaths :
        UpdateSubscription(Subscription("s1", "t1", ads, mrd, "new"), paths)

UpdUpdateTopic ==
    \E paths \in TopicPaths :
        UpdateTopic("t1", [Labels |-> "new", MessageStoragePolicy |-> "new"],
                    paths)

NextUpdate ==
    \/ UpdSetMinAckDeadline
    \/ DoCreateTopic
    \/ UpdCreateSubscription
    \/ UpdUpdateSubscription
    \/ UpdUpdateTopic

SpecUpdate == Init /\ [][NextUpdate]_vars

\* C7: an UpdateSubscription or UpdateTopic call that returns an error
\* leaves the stored subscriptions and topics exactly as they were.
C7_FailedUpdateKeeps ==
    [][(last'.op \in {"UpdateSubscription", "UpdateTopic"} /\ last'.err # "OK")
          => (subObjs' = subObjs /\ topics' = topics)]_vars

\* C8: CreateSubscription with a new name on an existing topic and ack
\* deadline 0 succeeds, and the subscription leases for the default 10 s.
C8_DefaultAckDeadline ==
    [][\A s \in SubNames :
          (/\ s \notin DOMAIN subs
           /\ "t1" \in DOMAIN topics
           /\ CreateSubscription(Subscription(s, "t1", 0, NoDuration, "old")))
          => /\ last'.err = "OK"
             /\ s \in DOMAIN subs'
             /\ subObjs'[subs'[s]].ackTimeout = defaultAckTimeout]_vars

\* the ack deadline is out of the accepted range
BadAckDeadline(ads) == ads > maxAckDeadlineSecs \/ ads < minAckDeadlineSecs

\* C9: CreateSubscription, and UpdateSubscription whose mask names
\* ack_deadline_seconds, with an ack deadline out of range fail with Unknown
\* and change no subscription and no topic.
C9_BadAckDeadline ==
    [][\A s \in SubNames, ads \in AckDeadlines :
          (/\ BadAckDeadline(ads)
           /\ "t1" \in DOMAIN topics
           /\ \/ /\ s \notin DOMAIN subs
                 /\ CreateSubscription(Subscription(s, "t1", ads, NoDuration, "old"))
              \/ /\ s = "s1" /\ s \in DOMAIN subs
                 /\ \E paths \in {<<"ack_deadline_seconds">>,
                                  <<"labels", "ack_deadline_seconds">>} :
                       UpdateSubscription(
                           Subscription(s, "t1", ads, minMessageRetentionDuration, "new"),
                           paths))
          => /\ last'.err = "Unknown"
             /\ UNCHANGED <<subs, subObjs, topics>>]_vars

\* ==========================================================================
\* Round robin: every stream of s1 is open before the first Publish and is
\* back at its select when a delivery pass starts; nothing is acknowledged
\* and no lease runs out (the ack deadline is longer than the clock's range)
\* ==========================================================================
RRCreateSubscription ==
    /\ "s1" \notin DOMAIN subs
    /\ CreateSubscription(Subscription("s1", "t1", defaultMinAckDeadlineSecs,
                                       NoDuration, "old"))

RRPublish ==
    /\ "s1" \in DOMAIN subs
    /\ Len(subObjs[subs["s1"]].streams) = MaxStreams
    /\ DoPublish

RRDeliverBegin ==
    \E o \in DOMAIN subObjs :
        /\ Len(subObjs[o].streams) = MaxStreams
        /\ allReady(subObjs[o].streams)
        /\ DeliverBegin(o)

NextRR ==
    \/ DoCreateTopic
    \/ RRCreateSubscription
    \/ DoStreamingPull
    \/ RRPublish
    \/ DoTick
    \/ RRDeliverBegin
    \/ DoDeliverStep
    \/ DoSendDone

SpecRR == Init /\ [][NextRR]_vars

\* every message the bounds allow has been published and delivered once
AllDelivered ==
    /\ nextID = MaxMsgs
    /\ "s1" \in DOMAIN subs
    /\ \A id \in MsgIds :
          /\ id \in DOMAIN subObjs[subs["s1"]].msgs
          /\ messages[id].deliveries = 1

\* the stream at index i of s1 was handed a newly published message: the
\* first delivery of a message leaves the stream's index plus one in it
Served(i) ==
    \E id \in DOMAIN subObjs[subs["s1"]].msgs :
        subObjs[subs["s1"]].msgs[id].streamIndex = i + 1

\* C5: with every stream of the subscription open and ready at each delivery
\* pass and nothing acknowledged, each stream is handed a newly published
\* message, however the publishes are spread over the delivery passes: when
\* as many messages as there are streams have all been delivered, every
\* stream has been handed one.
C5_RoundRobin ==
    AllDelivered => \A i \in 0 .. (MaxStreams - 1) : Served(i)

\* ==========================================================================
\* Redelivery: one stream on s1 whose sendLoop always comes back to its
\* select, the background task keeps running its delivery passes, nothing is
\* acknowledged
\* ==========================================================================
LiveCreateSubscription ==
    /\ "s1" \notin DOMAIN subs
    /\ \E ads \in {defaultMinAckDeadlineSecs, maxAckDeadlineSecs} :
          CreateSubscription(Subscription("s1", "t1", ads, NoDuration, "old"))

\* the delivery passes, 10 ms apart, have nothing left to do at this instant:
\* no lease has run out unnoticed, every stream is back at its select and
\* no message waits for a stream that could take it
Settled ==
    /\ Unlocked
    /\ \A st \in DOMAIN streamObjs : streamObjs[st].pc = "select"
    /\ \A o \in DOMAIN subObjs :
          /\ \A id \in DOMAIN subObjs[o].msgs :
                outstanding(subObjs[o].msgs[id]) => now <= subObjs[o].msgs[id].ackDeadline
          /\ subObjs[o].streams # << >> => Available(subObjs[o].msgs) = {}

\* the clock's step d does not jump over the second after a lease runs out
NoSkip(d) ==
    \A o \in DOMAIN subObjs : \A id \in DOMAIN subObjs[o].msgs :
        outstanding(subObjs[o].msgs[id]) => now + d <= subObjs[o].msgs[id].ackDeadline + 1

LiveTick ==
    \E d \in {1, defaultMinAckDeadlineSecs, maxAckDeadlineSecs} :
        Settled /\ NoSkip(d) /\ Tick(d)

NextLive ==
    \/ DoCreateTopic
    \/ LiveCreateSubscription
    \/ OneStream
    \/ DoPublish
    \/ LiveTick
    \/ DoDeliverBegin
    \/ DoDeliverStep
    \/ DoSendDone

\* subscription.start runs deliver every 10 ms until the subscription is
\* stopped, and the sendLoop returns to its select after every Send
SpecLive ==
    /\ Init /\ [][NextLive]_vars
    /\ WF_vars(DoDeliverBegin)
    /\ WF_vars(DoDeliverStep)
    /\ WF_vars(DoSendDone)

\* id was delivered once from s1 and the clock has passed its lease's expiry
LeaseRanOut(id) ==
    /\ "s1" \in DOMAIN subs
    /\ id \in DOMAIN subObjs[subs["s1"]].msgs
    /\ messages[id].deliveries = 1
    /\ outstanding(subObjs[subs["s1"]].msgs[id])
    /\ now > subObjs[subs["s1"]].msgs[id].ackDeadline

\* C10: with one open stream that keeps receiving, a message that was
\* delivered and is never acknowledged is delivered again once its ack
\* deadline has elapsed: its delivery counter increases.
C10_Redelivered ==
    \A id \in MsgIds :
        LeaseRanOut(id) ~> (id \in DOMAIN messages /\ messages[id].deliveries >= 2)

\* ==========================================================================
\* Seek
\* ==========================================================================
SeekTargets == {NoTarget, SnapshotTarget} \cup (1 .. (MaxTicks + 2))

\* the acknowledgement counters stay within MaxAcks
SeekSeek ==
    /\ \A id \in DOMAIN messages : messages[id].acks < MaxAcks
    /\ \E s \in SubNames, target \in SeekTargets : Seek(s, target)

NextSeek ==
    \/ DoCreateTopic
    \/ RRCreateSubscription
    \/ DoPublish
    \/ ClearMessages
    \/ DoPull
    \/ DoAcknowledge
    \/ DoTick
    \/ SeekSeek

SpecSeek == Init /\ [][NextSeek]_vars

\* target is later than the publish time of every message published so far
AfterAll(target) ==
    /\ target > 0
    /\ \A id \in DOMAIN messages : messages[id].PublishTime < target

\* C11: Seek on a subscription to a time later than every publish time so
\* far empties its pending set and adds one to the acknowledgement counter
\* of every message that was pending; a Pull that follows returns nothing.
C11_SeekPastAll ==
    [][/\ \A target \in SeekTargets :
             (/\ "s1" \in DOMAIN subs
              /\ AfterAll(target)
              /\ Seek("s1", target))
             => /\ last'.err = "OK"
                /\ subObjs'[subs["s1"]].msgs = << >>
                /\ \A id \in DOMAIN subObjs[subs["s1"]].msgs :
                      messages'[id].acks = messages[id].acks + 1
       /\ \A max \in {0, 1} :
             (/\ last.op = "Seek" /\ last.err = "OK"
              /\ subObjs[last.sub].msgs = << >>
              /\ Pull("s1", max, TRUE))
             => (last'.err = "OK" /\ last'.ids = {})]_vars

\* a Pull that follows a Seek which dropped a pending message
C11_Witness ==
    /\ last.op = "Pull" /\ last.err = "OK" /\ last.ids = {}
    /\ msgs # << >>
    /\ subObjs[last.sub].msgs = << >>
    /\ hAcked[last.sub] = {}
    /\ \E id \in Range(msgs) : messages[id].acks = 1 /\ messages[id].deliveries = 1

\* ==========================================================================
\* Reactors: a server built with reactors under one operation name
\* ==========================================================================
\* the operations of the RPC surface that change the broker
OpNames ==
    {"CreateTopic", "UpdateTopic", "DeleteTopic", "CreateSubscription",
     "UpdateSubscription", "DeleteSubscription", "DetachSubscription",
     "Publish", "Acknowledge", "ModifyAckDeadline", "Pull", "Seek",
     "StreamingPull"}

Reactors ==
    {Reactor(TRUE, "nil", "nil"), Reactor(TRUE, "r1", "nil"),
     Reactor(TRUE, "nil", "Aborted"), Reactor(FALSE, "nil", "nil"),
     Reactor(FALSE, "nil", "Aborted")}

ReactorLists ==
    UNION {[1 .. n -> Reactors] : n \in 1 .. MaxReactors}

InitReact ==
    /\ \E f \in OpNames, rs \in ReactorLists : NewServer([g \in {f} |-> rs])
    /\ OtherInit

ReactUpdateTopic ==
    UpdateTopic("t1", [Labels |-> "new", MessageStoragePolicy |-> "new"],
                <<"labels">>)

ReactUpdateSubscription ==
    UpdateSubscription(Subscription("s1", "t1", 0, NoDuration, "new"), <<"labels">>)

ReactPublish == nextID = 0 /\ Publish("t1", 1)

ReactCreateSubscription == subObjs = << >> /\ RRCreateSubscription

ReactPull == Pull("s1", 1, TRUE)

ReactAcknowledge == Acknowledge("s1", {0})

ReactModifyAckDeadline == ModifyAckDeadline("s1", {0}, 0)

ReactSeek ==
    /\ \A id \in DOMAIN messages : messages[id].acks < MaxAcks
    /\ Seek("s1", 2)

\* the operation named f has reactors
Registered(f) == f \in DOMAIN reactorOptions

NextReact ==
    \/ CreateTopic("t1")
    \/ ReactCreateSubscription
    \/ ReactPublish
    \/ OneStream
    \/ Registered("UpdateTopic") /\ ReactUpdateTopic
    \/ Registered("DeleteTopic") /\ DeleteTopic("t1")
    \/ Registered("UpdateSubscription") /\ ReactUpdateSubscription
    \/ Registered("DeleteSubscription") /\ DeleteSubscription("s1")
    \/ Registered("DetachSubscription") /\ DetachSubscription("s1")
    \/ Registered("Acknowledge") /\ ReactAcknowledge
    \/ Registered("ModifyAckDeadline") /\ ReactModifyAckDeadline
    \/ Registered("Pull") /\ ReactPull
    \/ Registered("Seek") /\ ReactSeek

SpecReact == InitReact /\ [][NextReact]_vars

\* the index of the first reactor of val that reports handled, 0 when none
\* does
FirstHandled(val) ==
    IF \E i \in DOMAIN val : val[i].handled
    THEN CHOOSE i \in DOMAIN val :
            val[i].handled /\ \A j \in 1 .. (i - 1) : ~val[j].handled
    ELSE 0

\* C12: a call of an operation with registered reactors returns the result
\* of the first reactor, in registration order, that reports handled (its
\* value, or the default when it gives none, and its error) without running
\* the operation's own logic; when no reactor reports handled the
\* operation's own logic gives the result.
C12_FirstHandledDecides ==
    [][\A f \in OpNames \ {"StreamingPull"} :
          (Registered(f) /\ last'.op = f)
          => LET val == reactorOptions[f]
                 i == FirstHandled(val)
             IN IF i > 0
                THEN /\ last'.by = i
                     /\ last'.ret = IF val[i].ret = "nil" THEN "default" ELSE val[i].ret
                     /\ last'.err = IF val[i].err = "nil" THEN "OK" ELSE val[i].err
                ELSE last'.by = 0 /\ last'.ret = "logic"]_vars

\* some reactor registered under f reports handled
ReportsHandled(f) ==
    Registered(f) /\ \E i \in DOMAIN reactorOptions[f] : reactorOptions[f][i].handled

\* C13: a call of any operation of the RPC surface, StreamingPull included,
\* that has a reactor reporting handled under its name changes no broker
\* state: topics, subscriptions, pending sets, stream lists, the message log
\* and the id counter stay as they were.
C13_HandledChangesNothing ==
    [][\A f \in OpNames :
          (ReportsHandled(f) /\ last'.op = f) => UNCHANGED brokerVars]_vars

\* ==========================================================================
\* Unary Pull: any requested maximum, with and without the long poll
\* ==========================================================================
MaxMessages == {-1, 0, 1}

\* the waits a Pull call may be in
PullWaits ==
    [sub : 1 .. MaxSubObjs, max : {1, defaultMaxMessages}]

PullPull ==
    \E max \in MaxMessages, returnImmediately \in BOOLEAN :
        Pull("s1", max, returnImmediately)

PullPullRetry == \E w \in pullWait : PullRetry(w)

PullPullCancel == \E w \in pullWait : PullCancel(w)

PullModifyAckDeadline ==
    \E id \in msgsByID : ModifyAckDeadline("s1", {id}, 0)

\* the clock moves by the subscription's ack deadline
PullTick == Tick(defaultMinAckDeadlineSecs)

NextPull ==
    \/ DoCreateTopic
    \/ RRCreateSubscription
    \/ DoPublish
    \/ PullPull
    \/ PullPullRetry
    \/ PullPullCancel
    \/ PullModifyAckDeadline
    \/ PullTick

\* the 500 ms timer of every waiting Pull fires
SpecPull ==
    /\ Init /\ [][NextPull]_vars
    /\ \A w \in PullWaits : WF_vars(PullRetry(w))

\* C14: a unary Pull does not wait when the caller asked for an immediate
\* return or the first scan found a message; the scan after the wait is the
\* last one and ends the call; a cancellation during the wait ends the call
\* with the cancellation error and without a scan; every waiting call
\* returns.
C14_PullReturns ==
    /\ [][/\ \A max \in MaxMessages, ri \in BOOLEAN :
                Pull("s1", max, ri)
                => /\ pullWait' \subseteq pullWait \/ (~ri /\ last'.ids = {})
                   /\ (ri \/ last'.ids # {}) => last'.op = "Pull"
          /\ \A w \in pullWait :
                /\ PullRetry(w) => (last'.op = "Pull" /\ pullWait' = pullWait \ {w})
                /\ PullCancel(w)
                   => /\ last'.op = "Pull" /\ last'.err = "Canceled"
                      /\ pullWait' = pullWait \ {w}
                      /\ UNCHANGED <<subObjs, messages>>]_vars
    /\ \A w \in PullWaits : (w \in pullWait) ~> (w \notin pullWait)

\* a call that waited was cancelled while another call still waits
C14_Witness ==
    /\ last.op = "Pull" /\ last.err = "Canceled"
    /\ pullWait # {}

\* the pending entry of id on the subscription s1 is Available at time t
AvailableAt(id, t) ==
    /\ id \in DOMAIN subObjs[subs["s1"]].msgs
    /\ LET m == subObjs[subs["s1"]].msgs[id]
       IN ~outstanding(m) \/ t > m.ackDeadline

\* what C15 asks of a scan for at most max messages
PullPost(max) ==
    /\ last'.op \in {"Pull", "PullWait"} /\ last'.err = "OK"
    /\ Cardinality(last'.ids) <= IF max = 0 THEN defaultMaxMessages ELSE max
    /\ \A id \in last'.ids :
          /\ AvailableAt(id, now)
          /\ outstanding(subObjs'[subs["s1"]].msgs[id])
          /\ messages'[id].deliveries = messages[id].deliveries + 1

\* C15: a Pull for at most n > 0 messages returns at most n (at most 1000
\* for n = 0); every message it returns was Available when scanned and is
\* Leased afterwards with its delivery counter one higher.  A Pull with
\* negative n fails with InvalidArgument and changes no message state.
C15_PullBatch ==
    [][/\ \A max \in MaxMessages, ri \in BOOLEAN :
             ("s1" \in DOMAIN subs /\ Pull("s1", max, ri))
             => IF max < 0
                THEN last'.err = "InvalidArgument" /\ UNCHANGED <<subObjs, messages>>
                ELSE PullPost(max)
       /\ \A w \in pullWait :
             (subs["s1"] = w.sub /\ PullRetry(w)) => PullPost(w.max)]_vars

\* a Pull for one message has returned one and left another Available
C15_Witness ==
    /\ last.op = "Pull" /\ Cardinality(last.ids) = 1
    /\ \E id \in DOMAIN subObjs[last.sub].msgs :
          id \notin last.ids /\ ~outstanding(subObjs[last.sub].msgs[id])

\* ------------------------------------------------------------- SpecStream
\* StreamingPull calls from their start to their return: up to MaxStreams + 1
\* streams on one subscription, with and without a stream timeout
\* the timeout is set, if at all, before the first stream is opened
StrSetStreamTimeout ==
    streamTimeout = 0 /\ streamObjs = << >> /\ SetStreamTimeout(1)

\* the streams are opened once the message is published
StrStreamingPull == nextID = 1 /\ StreamingPull("s1", 0)

StrPublish == nextID = 0 /\ Publish("t1", 1)

\* a request that nacks one message
StrStreamRecv ==
    \E st \in DOMAIN streamObjs, id \in msgsByID : StreamRecv(st, {}, {id}, 0, 0)

StrStreamEnd == \E st \in DOMAIN streamObjs, cause \in Causes : StreamEnd(st, cause)

StrStreamDelete == \E st \in DOMAIN streamObjs : StreamDelete(st)

StrTick == ticks = 0 /\ Tick(defaultAckTimeout + 1)

NextStream ==
    \/ DoCreateTopic
    \/ RRCreateSubscription
    \/ StrSetStreamTimeout
    \/ StrStreamingPull
    \/ StrPublish
    \/ StrStreamRecv
    \/ StrStreamEnd
    \/ StrStreamDelete
    \/ StrTick
    \/ DoDeliverBegin
    \/ DoDeliverStep
    \/ DoSendDone

SpecStream == Init /\ [][NextStream]_vars

\* C16: a StreamingPull call ends when a half returns or, with a timeout
\* above 0, when the timeout fires: it returns nil on end-of-input and on
\* timeout and the half's error otherwise; with timeout 0 it never ends by
\* timeout; the completion fires once (done and the result never change
\* again); after it the sendLoop takes no new message and returns, at once
\* from its select or else when its Send returns.
C16_StreamEnds ==
    /\ [][\A st \in DOMAIN streamObjs :
            /\ \A cause \in Causes :
                   StreamEnd(st, cause) =>
                       /\ ~streamObjs[st].done /\ streamObjs'[st].done
                       /\ streamObjs'[st].result =
                              (IF cause \in {"EOF", "Timeout"} THEN "nil"
                               ELSE "Unavailable")
                       /\ cause = "Timeout" => streamObjs[st].timeout > 0
            /\ streamObjs[st].done =>
                   /\ streamObjs'[st].done
                   /\ streamObjs'[st].result = streamObjs[st].result
                   /\ streamObjs'[st].pc = "Send" => streamObjs[st].pc = "Send"
            /\ ~streamObjs[st].done /\ streamObjs'[st].done =>
                   \E cause \in Causes : StreamEnd(st, cause)]_vars
    /\ [][\A st \in DOMAIN streamObjs :
            streamObjs[st].done /\ SendDone(st) => streamObjs'[st].pc = "returned"]_vars

\* a call without a timeout has ended on end-of-input while its sendLoop was
\* in Send, and the sendLoop has returned since
C16_Witness ==
    \E st \in DOMAIN streamObjs :
        /\ streamObjs[st].done /\ streamObjs[st].timeout = 0
        /\ streamObjs[st].result = "nil" /\ ~streamObjs[st].recv
        /\ streamObjs[st].pc = "returned"
        /\ last.op = "Send" /\ last.sub = streamObjs[st].sub
        /\ \E t2 \in DOMAIN streamObjs : streamObjs[t2].result = "Unavailable"

\* the streams of strs that are also in other, in the order of strs
Common(strs, other) == SelectSeq(strs, LAMBDA x : x \in Range(other))

\* C17: once a StreamingPull call has returned, its stream is in no
\* subscription's stream list and no delivery hands it a message; the
\* streams that stay in a list keep their relative order.
C17_ReturnedStreamGone ==
    /\ [](\A st \in DOMAIN streamObjs :
             streamObjs[st].ended =>
                 \A o \in DOMAIN subObjs : st \notin Range(subObjs[o].streams))
    /\ [][(\A st \in DOMAIN streamObjs :
               streamObjs[st].ended =>
                   (streamObjs'[st].pc = "Send" => streamObjs[st].pc = "Send"))
           /\ (\A o \in DOMAIN subObjs :
                  Common(subObjs[o].streams, subObjs'[o].streams)
                      = Common(subObjs'[o].streams, subObjs[o].streams))]_vars

\* the second of three streams has returned, the other two are still listed
\* in their order, and a message has just been handed to one of them
C17_Witness ==
    /\ Len(streamObjs) = MaxStreams + 1
    /\ streamObjs[2].ended
    /\ \E o \in DOMAIN subObjs : subObjs[o].streams = <<1, 3>>
    /\ last.op = "deliver" /\ last.err = "OK"

\* C18: the end of a StreamingPull call releases nothing: neither the end of
\* stream.pull nor the removal of the stream changes a pending entry, so a
\* Leased message keeps its lease-expiry instant; a Leased message that is
\* still pending becomes Available only in a step taken after its expiry
\* has passed or in a request that nacks it.
C18_EndKeepsLeases ==
    [][(\A st \in DOMAIN streamObjs :
           ((\E cause \in Causes : StreamEnd(st, cause)) \/ StreamDelete(st))
               => (\A o \in DOMAIN subObjs : subObjs'[o].msgs = subObjs[o].msgs))
       /\ (\A o \in DOMAIN subObjs : \A id \in DOMAIN subObjs[o].msgs :
              (/\ outstanding(subObjs[o].msgs[id])
               /\ id \in DOMAIN subObjs'[o].msgs
               /\ ~outstanding(subObjs'[o].msgs[id]))
              => \/ now > subObjs[o].msgs[id].ackDeadline
                 \/ \E st \in DOMAIN streamObjs : StreamRecv(st, {}, {id}, 0, 0))]_vars

\* the only stream there has been was handed a message and its call has
\* returned since; the message is still Leased, with the lease it was given
C18_Witness ==
    /\ Len(streamObjs) = 1 /\ streamObjs[1].ended
    /\ last.op = "StreamDelete"
    /\ \E id \in DOMAIN subObjs[last.sub].msgs :
          /\ outstanding(subObjs[last.sub].msgs[id])
          /\ subObjs[last.sub].msgs[id].ackDeadline = hLease[last.sub][id]
          /\ messages[id].deliveries = 1

\* ------------------------------------------------------------- SpecRetain
\* subscriptions with their own retention, a clock that passes ten and
\* twenty minutes, and the maintenance of the delivery pass
RetentionChoices == {NoDuration, minMessageRetentionDuration,
                     2 * minMessageRetentionDuration}

RetCreateSubscription ==
    /\ "s1" \notin DOMAIN subs
    /\ \E mrd \in RetentionChoices :
          CreateSubscription(Subscription("s1", "t1", defaultMinAckDeadlineSecs,
                                          mrd, "old"))

RetTick ==
    \E d \in {1, minMessageRetentionDuration, minMessageRetentionDuration + 1} :
        Tick(d)

NextRetain ==
    \/ DoCreateTopic
    \/ RetCreateSubscription
    \/ DoPublish
    \/ OneStream
    \/ RetTick
    \/ DoDeliverBegin
    \/ DoDeliverStep
    \/ DoSendDone

SpecRetain == Init /\ [][NextRetain]_vars

\* the age of a pending entry at time t
Age(m, t) == t - m.publishTime

\* C19: the maintenance of a delivery pass removes a pending message that is
\* Available (already, or because its lease has run out) exactly when its
\* age since publish exceeds the MessageRetentionDuration of its own
\* subscription, and it keeps every message whose lease has not run out.
C19_PurgeByOwnRetention ==
    [][\A o \in DOMAIN subObjs :
          (DeliverBegin(o) /\ ~panicked') =>
              \A id \in DOMAIN subObjs[o].msgs :
                  LET m == subObjs[o].msgs[id]
                      mrd == subObjs[o].proto.MessageRetentionDuration
                  IN /\ id \notin DOMAIN subObjs'[o].msgs
                        <=> (~outstanding(expire(m, now)) /\ Age(m, now) > mrd)
                     /\ (outstanding(m) /\ now <= m.ackDeadline)
                        => id \in DOMAIN subObjs'[o].msgs]_vars

\* ---------------------------------------------------------------- SpecFan
\* topics and subscriptions that come and go, and publishes to present,
\* absent and unnamed topics
FanCreateTopic == \E t \in TopicNames : t \notin DOMAIN topics /\ CreateTopic(t)

FanDeleteTopic == \E t \in DOMAIN topics : DeleteTopic(t)

FanCreateSubscription ==
    \E s \in SubNames, t \in TopicNames :
        /\ s \notin DOMAIN subs
        /\ CreateSubscription(Subscription(s, t, defaultMinAckDeadlineSecs,
                                           NoDuration, "old"))

FanDeleteSubscription == \E s \in DOMAIN subs : DeleteSubscription(s)

FanDetachSubscription == \E s \in DOMAIN subs : DetachSubscription(s)

FanPublish == \E t \in TopicNames \cup {""}, n \in 1 .. MaxMsgs : Publish(t, n)

NextFan ==
    \/ FanCreateTopic
    \/ FanDeleteTopic
    \/ FanCreateSubscription
    \/ FanDeleteSubscription
    \/ FanDetachSubscription
    \/ FanPublish

SpecFan == Init /\ [][NextFan]_vars

\* the step creates the subscription object o on the topic t
CreatedOn(o, t) ==
    /\ o \notin DOMAIN subObjs /\ o \in DOMAIN subObjs'
    /\ subObjs'[o].topic = t

\* the step deletes or detaches the subscription object o
Removed(o) ==
    /\ last'.op \in {"DeleteSubscription", "DetachSubscription"}
    /\ last'.err = "OK" /\ last'.ret = "logic" /\ last'.sub = o

\* C20: the subscriptions attached to a topic are those created on it and
\* not since deleted or detached; a Publish to a topic that exists adds the
\* new messages, Available, to the pending set of exactly the attached
\* subscriptions and changes no other pending entry; a Publish to a missing
\* or unknown topic fails, issues no identifier and changes no state.
C20_PublishFanOut ==
    [][(\A t \in TopicNames :
           /\ (t \notin DOMAIN topics /\ t \in DOMAIN topics') => topics'[t].subs = {}
           /\ (t \in DOMAIN topics /\ t \in DOMAIN topics') =>
                  \A o \in 1 .. MaxSubObjs :
                      o \in topics'[t].subs
                          <=> \/ o \in topics[t].subs /\ ~Removed(o)
                              \/ CreatedOn(o, t))
       /\ (\A t \in TopicNames \cup {""}, n \in 1 .. MaxMsgs :
              Publish(t, n) =>
                  IF t \in DOMAIN topics
                  THEN /\ last'.err = "OK"
                       /\ Cardinality(last'.ids) = n
                       /\ last'.ids \cap msgsByID = {}
                       /\ \A o \in DOMAIN subObjs :
                              /\ DOMAIN subObjs'[o].msgs =
                                     DOMAIN subObjs[o].msgs \cup
                                         (IF o \in topics[t].subs THEN last'.ids ELSE {})
                              /\ \A id \in DOMAIN subObjs[o].msgs :
                                     subObjs'[o].msgs[id] = subObjs[o].msgs[id]
                              /\ \A id \in DOMAIN subObjs'[o].msgs \ DOMAIN subObjs[o].msgs :
                                     ~outstanding(subObjs'[o].msgs[id])
                  ELSE /\ last'.err = (IF t = "" THEN "InvalidArgument" ELSE "NotFound")
                       /\ UNCHANGED <<brokerVars, hIssued>>)]_vars

\* a Publish has reached the one subscription still attached to its topic
\* and not the one detached from it
C20_Witness ==
    /\ last.op = "Publish" /\ last.err = "OK" /\ last.ids # {}
    /\ Len(subObjs) = 2
    /\ subObjs[1].topic = subObjs[2].topic
    /\ ~subObjs[1].done /\ 1 \in Range(subs)
    /\ last.ids \cap DOMAIN subObjs[1].msgs = {}
    /\ last.ids \subseteq DOMAIN subObjs[2].msgs

\* ------------------------------------------------------------- SpecDelete
\* a subscription and its topic are deleted and created again while the
\* subscription is read, pulled, acknowledged, modified and sought
DelGetSubscription == GetSubscription("s1")

DelSeekTargets == {NoTarget, SnapshotTarget, 1, 2}

\* Pull, Acknowledge, ModifyAckDeadline or Seek on s, with a Seek target out
\* of targets
DelCall(s, targets) ==
    \/ \E max \in {0, 1} : Pull(s, max, TRUE)
    \/ Acknowledge(s, {0})
    \/ ModifyAckDeadline(s, {0}, 0)
    \/ /\ \A id \in DOMAIN messages : messages[id].acks < MaxAcks
       /\ \E target \in targets : Seek(s, target)

DelPublish == Publish("t1", 1)

DelCalls == nextID > 0 /\ DelCall("s1", DelSeekTargets)

DelDeleteSubscription == \E s \in SubNames : DeleteSubscription(s)

DelDeleteTopic == \E t \in TopicNames : DeleteTopic(t)

NextDelete ==
    \/ DoCreateTopic
    \/ RRCreateSubscription
    \/ DelPublish
    \/ DelGetSubscription
    \/ DelDeleteSubscription
    \/ DelDeleteTopic
    \/ DelCalls

SpecDelete == Init /\ [][NextDelete]_vars

\* the step is a call of one of the operations that name a subscription,
\* on s, with a Seek target out of targets
CallOn(s, targets) == GetSubscription(s) \/ DelCall(s, targets)

\* what DeleteSubscription does and leaves behind, for Seek targets out of
\* targets
DeletedIsGone(targets) ==
    \A s \in SubNames :
        /\ (s \in DOMAIN subs /\ DeleteSubscription(s)) =>
               /\ last'.err = "OK"
               /\ s \notin DOMAIN subs'
               /\ \A t \in DOMAIN topics' : subs[s] \notin topics'[t].subs
               /\ subObjs'[subs[s]].done
        /\ (s \notin DOMAIN subs /\ DeleteSubscription(s)) =>
               /\ last'.err = "NotFound"
               /\ UNCHANGED <<configVars, otherVars, brokerVars, envVars, taskVars, histVars>>
        /\ (s \notin DOMAIN subs /\ CallOn(s, targets)) =>
               /\ last'.err = "NotFound"
               /\ UNCHANGED <<configVars, otherVars, brokerVars, envVars, taskVars, histVars>>
        /\ (/\ s \notin DOMAIN subs /\ "t1" \in DOMAIN topics
            /\ CreateSubscription(Subscription(s, "t1", defaultMinAckDeadlineSecs,
                                               NoDuration, "old"))) =>
               /\ last'.err = "OK"
               /\ s \in DOMAIN subs' /\ subs'[s] \notin DOMAIN subObjs
               /\ ~subObjs'[subs'[s]].done

\* C21 as stated: after DeleteSubscription(s), GetSubscription, Pull,
\* Acknowledge, ModifyAckDeadline and every Seek on s fail with NotFound, s
\* is in no topic's attached set, its delivery task is told to stop and the
\* name can be created again; DeleteSubscription of an unknown name fails
\* with NotFound and changes nothing.
C21_DeletedIsGone == [][DeletedIsGone(DelSeekTargets)]_vars

\* C21, amended: the same with Seek restricted to requests that carry a
\* time target; a Seek without a target or with a snapshot target is
\* rejected before the subscription is looked up.
C21_DeletedIsGone_TimeSeek ==
    [][DeletedIsGone(DelSeekTargets \ {NoTarget, SnapshotTarget})]_vars

\* a Pull on the name of a deleted subscription that had a pending message
C21_Witness ==
    /\ last.op = "Pull" /\ last.err = "NotFound"
    /\ "s1" \notin DOMAIN subs
    /\ \E o \in DOMAIN subObjs : subObjs[o].done /\ subObjs[o].msgs # << >>

\* the subscription named s was attached to a topic that has been deleted
OnDeletedTopic(s) ==
    s \in DOMAIN subs /\ subObjs[subs[s]].proto.Topic = DeletedTopic

Leaked == MaxHolders + 1

\* the lock file of a new emulator, as os.Create leaves it
newLockFile == [listed |-> TRUE, lock |-> 0, data |-> "empty", alive |-> TRUE]

flockBusy_Never(f) == FALSE

\* syscall.Flock(LOCK_EX|LOCK_NB) would block: another open file holds it
flockBusy(f) == f.lock # 0

\* acquireDatastoreEmulator up to ioutil.ReadDir of lockRunningEmulator
acquireDatastoreEmulator(h) ==
    /\ holders[h].pc = "idle"
    /\ holders' = [holders EXCEPT ![h] =
           [@ EXCEPT !.pc = "scan",
                     !.todo = {e \in DOMAIN lockFiles : lockFiles[e].listed}]]
    /\ UNCHANGED <<lockFiles, pstestVars, dsVars>>

\* tryLockEmulator: os.Open of the next lock file of the listing
tryLockOpen(h, e) ==
    /\ holders[h].pc = "scan"
    /\ e \in holders[h].todo
    /\ holders' = [holders EXCEPT ![h] =
           IF lockFiles[e].listed
           THEN [@ EXCEPT !.pc = "opened", !.file = e, !.todo = @ \ {e}]
           ELSE [@ EXCEPT !.todo = @ \ {e}]]
    /\ UNCHANGED <<lockFiles, pstestVars, dsVars>>

\* tryLockEmulator: the non-blocking flock of the opened file
tryLockFlock(h) ==
    LET e == holders[h].file
    IN /\ holders[h].pc = "opened"
       /\ IF flockBusy(lockFiles[e])
          THEN /\ holders' = [holders EXCEPT ![h] = [@ EXCEPT !.pc = "scan", !.file = 0]]
               /\ UNCHANGED lockFiles
          ELSE /\ lockFiles' = [lockFiles EXCEPT ![e].lock = h]
               /\ holders' = [holders EXCEPT ![h].pc = "locked"]
       /\ UNCHANGED <<pstestVars, dsVars>>

\* emulatorFromFile under the lock, and what tryLockEmulator does with its
\* error; ping: waitForStartup reaches a live emulator in time
emulatorFromFile(h, ping) ==
    LET e == holders[h].file
        valid == lockFiles[e].data = "valid" /\ lockFiles[e].alive /\ ping
    IN /\ holders[h].pc = "locked"
       /\ IF valid
          THEN /\ holders' = [holders EXCEPT ![h].pc = "reset"]
               /\ UNCHANGED lockFiles
          ELSE /\ lockFiles' = [lockFiles EXCEPT ![e].listed = FALSE, ![e].lock = 0]
               /\ holders' = [holders EXCEPT ![h] = [@ EXCEPT !.pc = "scan", !.file = 0]]
       /\ UNCHANGED <<pstestVars, dsVars>>

\* acquireDatastoreEmulator after lockRunningEmulator found an emulator:
\* emulator.Reset; on its error the call returns with the file still open
ResetEmulator(h, ok) ==
    LET e == holders[h].file
    IN /\ holders[h].pc = "reset"
       /\ IF ok
          THEN /\ holders' = [holders EXCEPT ![h] =
                      [@ EXCEPT !.pc = "held", !.em = e, !.how = "locked", !.todo = {}]]
               /\ UNCHANGED lockFiles
          ELSE /\ lockFiles' = [lockFiles EXCEPT ![e].lock = Leaked]
               /\ holders' = [holders EXCEPT ![h] = NoHolder]
       /\ UNCHANGED <<pstestVars, dsVars>>

\* startEmulator up to os.Create of the lock file; ok: a port, the log file,
\* gcloud and the start of the emulator were all there
startEmulator(h, ok) ==
    /\ holders[h].pc = "scan" /\ holders[h].todo = {}
    /\ Len(lockFiles) < MaxEmulators
    /\ IF ok
       THEN /\ lockFiles' = Append(lockFiles, newLockFile)
            /\ holders' = [holders EXCEPT ![h] =
                   [@ EXCEPT !.pc = "created", !.file = Len(lockFiles) + 1]]
       ELSE /\ holders' = [holders EXCEPT ![h] = NoHolder]
            /\ UNCHANGED lockFiles
    /\ UNCHANGED <<pstestVars, dsVars>>

\* startEmulator: the blocking flock of the new lock file
startFlock(h) ==
    LET e == holders[h].file
    IN /\ holders[h].pc = "created"
       /\ lockFiles[e].lock = 0
       /\ lockFiles' = [lockFiles EXCEPT ![e].lock = h]
       /\ holders' = [holders EXCEPT ![h].pc = "flocked"]
       /\ UNCHANGED <<pstestVars, dsVars>>

\* startEmulator: the emulator's data is written to the lock file; on an
\* error the file is closed and removed
startWrite(h, ok) ==
    LET e == holders[h].file
    IN /\ holders[h].pc = "flocked"
       /\ IF ok
          THEN /\ lockFiles' = [lockFiles EXCEPT ![e].data = "valid"]
               /\ holders' = [holders EXCEPT ![h] =
                      [@ EXCEPT !.pc = "held", !.em = e, !.how = "started"]]
          ELSE /\ lockFiles' = [lockFiles EXCEPT ![e].listed = FALSE, ![e].lock = 0]
               /\ holders' = [holders EXCEPT ![h] = NoHolder]
       /\ UNCHANGED <<pstestVars, dsVars>>

\* the outcomes of missingCompositeIndexes in Release
Checks == {"ok", "error", "missing"}

\* DatastoreEmulator.Release, and TempDSClient.Close which calls it after
\* closing the client: it returns before the unlock when the check of the
\* composite indexes fails; otherwise LOCK_UN and the Close of the file
\* end the lock whether or not LOCK_UN reports an error
Release(h, check) ==
    LET e == holders[h].em
    IN /\ holders[h].pc = "held"
       /\ lockFiles' = [lockFiles EXCEPT ![e].lock = IF check = "ok" THEN 0 ELSE Leaked]
       /\ holders' = [holders EXCEPT ![h] = NoHolder]
       /\ UNCHANGED <<pstestVars, dsVars>>

\* the finalizer of an os.File nobody refers to closes it
Finalize(e) ==
    /\ e \in DOMAIN lockFiles
    /\ lockFiles[e].lock = Leaked
    /\ lockFiles' = [lockFiles EXCEPT ![e].lock = 0]
    /\ UNCHANGED <<holders, pstestVars, dsVars>>

\* the process of an emulator ends
EmulatorDies(e) ==
    /\ e \in DOMAIN lockFiles
    /\ lockFiles[e].alive
    /\ lockFiles' = [lockFiles EXCEPT ![e].alive = FALSE]
    /\ UNCHANGED <<holders, pstestVars, dsVars>>

Holders == 1 .. MaxHolders

PoolAcquire == \E h \in Holders : acquireDatastoreEmulator(h)

PoolOpen == \E h \in Holders, e \in DOMAIN lockFiles : tryLockOpen(h, e)

PoolFlock == \E h \in Holders : tryLockFlock(h)

PoolFromFile == \E h \in Holders, ping \in BOOLEAN : emulatorFromFile(h, ping)

PoolReset == \E h \in Holders, ok \in BOOLEAN : ResetEmulator(h, ok)

PoolStart == \E h \in Holders, ok \in BOOLEAN : startEmulator(h, ok)

PoolStartFlock == \E h \in Holders : startFlock(h)

PoolStartWrite == \E h \in Holders, ok \in BOOLEAN : startWrite(h, ok)

PoolRelease == \E h \in Holders, check \in Checks : Release(h, check)

PoolFinalize == \E e \in DOMAIN lockFiles : Finalize(e)

PoolDies == \E e \in DOMAIN lockFiles : EmulatorDies(e)

NextPool ==
    \/ PoolAcquire
    \/ PoolOpen
    \/ PoolFlock
    \/ PoolFromFile
    \/ PoolReset
    \/ PoolStart
    \/ PoolStartFlock
    \/ PoolStartWrite
    \/ PoolRelease
    \/ PoolFinalize
    \/ PoolDies

SpecPool == Init /\ [][NextPool]_vars

\* C23: no two holders have the same emulator acquired, and a holder has
\* the lock of the emulator it has acquired, so acquireDatastoreEmulator
\* has never returned an emulator locked by another holder; a caller that
\* found no emulator to lock goes on to start a new one.
C23_OneHolder ==
    /\ [](\A h \in Holders :
             holders[h].em # 0 =>
                 /\ lockFiles[holders[h].em].lock = h
                 /\ \A h2 \in Holders \ {h} : holders[h2].em # holders[h].em)
    /\ [][\A h \in Holders :
            (/\ holders[h].pc = "scan" /\ holders[h].todo = {}
             /\ holders'[h] # holders[h])
            => \E ok \in BOOLEAN : startEmulator(h, ok)]_vars

\* both holders have an emulator, the second one locked the emulator that
\* the first had started and released, and the first started another
C23_Witness ==
    /\ holders[1].pc = "held" /\ holders[2].pc = "held"
    /\ holders[2].how = "locked" /\ holders[2].em = 1
    /\ holders[1].how = "started" /\ holders[1].em = 2

\* C24: Release always gives up the holder's lock on the emulator, whatever
\* the teardown check reports: after it the lock file is free for the
\* non-blocking flock of another caller.
C24_ReleaseUnlocks ==
    [][\A h \in Holders, check \in Checks :
          Release(h, check) => ~flockBusy(lockFiles'[holders[h].em])]_vars

\* ==========================================================================
\* dsfake: the gRPC datastore fake
\* ==========================================================================
\* strings are sequences of characters, so that fmt.Sprintf can join them
DsNamespace == <<"n">>
DsKind == <<"K">>
DsNames == {<<"a">>, <<"b">>}
DsIds == 1 .. MaxId
DsValues == {"o1", "o2"}

\* strconv.FormatInt(i, 10) for the ids of the model
FormatInt(i) == <<(<<"1", "2", "3", "4", "5", "6", "7", "8", "9">>)[i]>>

\* datastorepb.Key_PathElement: a name key has Id 0, an id key has Name ""
NameElement(name) == [Kind |-> DsKind, Name |-> name, Id |-> 0]

IdElement(id) == [Kind |-> DsKind, Name |-> << >>, Id |-> id]

DsElements == {NameElement(n) : n \in DsNames} \cup {IdElement(i) : i \in DsIds}

\* the complete keys of one kind and namespace: without an ancestor, and
\* with the ancestor named a
DsKeys ==
    {[Namespace |-> DsNamespace, Path |-> <<el>>] : el \in DsElements}
        \cup {[Namespace |-> DsNamespace, Path |-> <<NameElement(<<"a">>), el>>] :
                  el \in DsElements}

\* getKeyNameAndKindFromPath: the loop over the path from element i with
\* the name and kind found so far
RECURSIVE getKeyNameAndKindFromPath(_, _, _)
getKeyNameAndKindFromPath(path, i, acc) ==
    IF i > Len(path) THEN acc
    ELSE LET el == path[i]
         IN getKeyNameAndKindFromPath(path, i + 1,
                [kind |-> el.Kind,
                 name |-> IF el.Name # << >> /\ el.Id # 0
                          THEN FormatInt(el.Id) ELSE el.Name])

\* protoKeyToKeyName: fmt.Sprintf("%s/%s/%s", namespace, kind, keyName)
protoKeyToKeyName(p) ==
    LET r == getKeyNameAndKindFromPath(p.Path, 1, [kind |-> << >>, name |-> << >>])
    IN p.Namespace \o <<"/">> \o r.kind \o <<"/">> \o r.name

Entity(k, v) == [Key |-> k, Value |-> v]

Upsert(k, v) == [op |-> "Upsert", entity |-> Entity(k, v)]

Update(k, v) == [op |-> "Update", entity |-> Entity(k, v)]

DeleteKey(k) == [op |-> "Delete", entity |-> Entity(k, "")]

\* the loop of FakeDatastore.Commit over the mutations from index i
RECURSIVE commitLoop(_, _, _)
commitLoop(objs, muts, i) ==
    IF i > Len(muts) THEN objs
    ELSE LET m == muts[i]
             name == protoKeyToKeyName(m.entity.Key)
             next(o) == commitLoop(o, muts, i + 1)
         IN CASE m.op = "Update" ->
                    next(IF name \in DOMAIN objs THEN With(objs, name, m.entity) ELSE objs)
              [] m.op = "Upsert" -> next(With(objs, name, m.entity))
              [] m.op = "Delete" -> next(Without(objs, {name}))

\* FakeDatastore.Commit
Commit(muts) ==
    /\ objects' = commitLoop(objects, muts, 1)
    /\ dsLast' = [op |-> "Commit"]
    /\ UNCHANGED <<pstestVars, poolVars>>

\* the result of FakeDatastore.Lookup for one key
lookup(objs, k) ==
    IF protoKeyToKeyName(k) \in DOMAIN objs
    THEN [found |-> TRUE, entity |-> objs[protoKeyToKeyName(k)]]
    ELSE [found |-> FALSE, entity |-> Entity(k, "")]

\* FakeDatastore.Lookup of one key
Lookup(k) ==
    /\ dsLast' = [op |-> "Lookup", res |-> lookup(objects, k)]
    /\ UNCHANGED <<objects, pstestVars, poolVars>>

DsPut == \E k \in DsKeys, v \in DsValues : Commit(<<Upsert(k, v)>>)

DsUpdate == \E k \in DsKeys, v \in DsValues : Commit(<<Update(k, v)>>)

DsDelete == \E k \in DsKeys : Commit(<<DeleteKey(k)>>)

DsGet == \E k \in DsKeys : Lookup(k)

NextDs == DsPut \/ DsUpdate \/ DsDelete \/ DsGet

SpecDs == Init /\ [][NextDs]_vars

\* C25: entities under distinct keys of one kind and namespace do not
\* interfere: a Put or Delete under k2 leaves what Get returns for every
\* other key k1 as it was; Get(k) after Put(k, v) returns the entity of k
\* with v, and Get(k) after Delete(k) finds no entity.
C25_KeysDoNotInterfere ==
    [][\A k2 \in DsKeys :
          /\ \A v \in DsValues :
                Commit(<<Upsert(k2, v)>>) =>
                    /\ lookup(objects', k2) = [found |-> TRUE, entity |-> Entity(k2, v)]
                    /\ \A k1 \in DsKeys \ {k2} :
                           lookup(objects', k1) = lookup(objects, k1)
          /\ Commit(<<DeleteKey(k2)>>) =>
                    /\ ~lookup(objects', k2).found
                    /\ \A k1 \in DsKeys \ {k2} :
                           lookup(objects', k1) = lookup(objects, k1)]_vars

\* C26: a unary Pull in its long-poll wait does not hold GServer.mu: while
\* one waits, Publish, Acknowledge and ModifyAckDeadline can take their
\* step; the retry after the wait is the last scan of the call, and it
\* returns a message when one is Available by then, as a message published
\* during the wait is.
C26_WaitWithoutLock ==
    /\ [](\A w \in pullWait :
             Running =>
                 /\ Unlocked
                 /\ nextID < MaxMsgs => ENABLED Publish("t1", 1)
                 /\ ENABLED Acknowledge("s1", {0})
                 /\ ENABLED ModifyAckDeadline("s1", {}, 0))
    /\ [][(\A w \in pullWait :
              (PullRetry(w) /\ ~panicked') =>
                  /\ last'.op = "Pull" /\ w \notin pullWait'
                  /\ Available(maintainMessages(subObjs[w.sub].msgs, now)) # {}
                        => last'.ids # {})
           /\ (pullWait # {} /\ Publish("t1", 1) =>
                  /\ last'.err = "OK"
                  /\ \A w \in pullWait :
                         last'.ids \subseteq Available(subObjs'[w.sub].msgs))]_vars

\* a message has been published while a Pull waits and is Available for
\* the retry of that Pull
C26_Witness ==
    /\ pullWait # {}
    /\ last.op = "Publish" /\ last.err = "OK"
    /\ \A w \in pullWait : last.ids \cap Available(subObjs[w.sub].msgs) # {}

\* --------------------------------------------------------------- SpecScan
\* the round-robin scan of subscription.deliver: MaxMsgs messages nacked and
\* delivered again on up to MaxStreams + 1 streams, some of them ended
ScanPublish == nextID < MaxMsgs /\ Publish("t1", 1)

\* the streams are opened once the messages are published
ScanStreamingPull == nextID = MaxMsgs /\ StreamingPull("s1", 0)

ScanStreamEnd == \E st \in DOMAIN streamObjs : StreamEnd(st, "RecvError")

NextScan ==
    \/ DoCreateTopic
    \/ RRCreateSubscription
    \/ ScanPublish
    \/ ScanStreamingPull
    \/ StrStreamRecv
    \/ ScanStreamEnd
    \/ StrStreamDelete
    \/ DoDeliverBegin
    \/ DoDeliverStep
    \/ DoSendDone

SpecScan == Init /\ [][NextScan]_vars

\* the stream st is open and its sendLoop waits for a message
Free(st) == ~streamObjs[st].done /\ streamObjs[st].pc = "select"

\* C27: a delivery attempt leaves an Available message Available only if
\* every stream of the subscription that is still open refused it as busy,
\* whatever the start index and also when the scan removes completed
\* streams; the scan ends inside the stream list.
C27_ScanTriesAll ==
    [][\A id \in MsgIds :
          (DeliverStep(id) /\ last'.err = "busy") =>
              \A i \in 1 .. Len(subObjs[dlv.sub].streams) :
                  ~Free(subObjs[dlv.sub].streams[i])]_vars

\* C28: once a stream's completion signal has fired, no delivery attempt
\* hands it a message or leases a message for it, however the delivery task
\* and the ending StreamingPull call interleave: an attempt changes a message
\* only together with an open stream that leaves its select for Send, leaves
\* every completed stream as it was, and leases nothing when every stream of
\* the list is completed.
C28_NoDeliveryAfterDone ==
    [][\A id \in MsgIds :
          DeliverStep(id) =>
              /\ (\A st \in DOMAIN streamObjs :
                     streamObjs[st].done => streamObjs'[st] = streamObjs[st])
              /\ (subObjs'[dlv.sub].msgs # subObjs[dlv.sub].msgs =>
                     \E st \in DOMAIN streamObjs :
                         /\ Free(st) /\ streamObjs'[st].pc = "Send"
                         /\ subObjs'[dlv.sub].msgs[id].ackDeadline =
                                dlv.now + streamObjs[st].ackTimeout)
              /\ ((\A st \in Range(subObjs[dlv.sub].streams) : streamObjs[st].done) =>
                     /\ subObjs'[dlv.sub].msgs = subObjs[dlv.sub].msgs
                     /\ messages' = messages /\ hLease' = hLease)]_vars

\* a delivery has passed over a stream whose call is ending (completed, not
\* yet returned, dropped from the list by the scan) and has handed the
\* message to an open one
C28_Witness ==
    /\ last.op = "deliver" /\ last.err = "OK" /\ last.ids # {}
    /\ \E st \in DOMAIN streamObjs :
           /\ streamObjs[st].done /\ ~streamObjs[st].ended
           /\ st \notin Range(subObjs[streamObjs[st].sub].streams)

\* C29: the next delivery attempt of a delivered message starts at the
\* stream immediately after the one that served it last, after its first
\* delivery and after every later one: the start index a delivery stores
\* in the message is the position that follows the serving stream in the
\* stream list, wrapping around.
C29_StartsAfterLast ==
    [][\A id \in MsgIds :
          (DeliverStep(id) /\ last'.err = "OK") =>
              LET strs == subObjs'[dlv.sub].streams
              IN \E p \in 1 .. Len(strs) :
                     /\ Free(strs[p]) /\ streamObjs'[strs[p]].pc = "Send"
                     /\ subObjs'[dlv.sub].msgs[id].streamIndex % Len(strs) =
                            p % Len(strs)]_vars

\* ---------------------------------------------------------------- SpecAck
\* streams whose requests carry a stream ack deadline or none
StreamAcks == {0, 20, 30}

AckStreamingPull ==
    \E a \in StreamAcks : Len(streamObjs) < MaxStreams /\ StreamingPull("s1", a)

\* a later request: it sets the stream ack deadline, nacks a message, or both
AckStreamRecv ==
    \E st \in DOMAIN streamObjs, a \in StreamAcks, ids \in SUBSET msgsByID :
        Cardinality(ids) <= 1 /\ StreamRecv(st, {}, ids, 0, a)

NextAck ==
    \/ DoCreateTopic
    \/ RRCreateSubscription
    \/ StrPublish
    \/ AckStreamingPull
    \/ AckStreamRecv
    \/ StrTick
    \/ DoDeliverBegin
    \/ DoDeliverStep
    \/ DoSendDone

SpecAck == Init /\ [][NextAck]_vars

\* C30: a message delivered on a stream is leased until the delivery time
\* plus the stream ack deadline that a request of the stream, the initial
\* one included, carried before the delivery, and plus the subscription's
\* ack deadline when no request carried a positive one.
C30_StreamLease ==
    [][\A id \in MsgIds :
          (DeliverStep(id) /\ last'.err = "OK") =>
              \E st \in DOMAIN streamObjs :
                  /\ Free(st) /\ streamObjs'[st].pc = "Send"
                  /\ subObjs'[dlv.sub].msgs[id].ackDeadline =
                         dlv.now + (IF streamObjs[st].asked > 0
                                    THEN secsToDur(streamObjs[st].asked)
                                    ELSE subObjs[dlv.sub].ackTimeout)]_vars

\* --------------------------------------------------------------- SpecLease
\* one subscription whose ack deadline is updated between unary pulls
LeaseUpdateSubscription ==
    \E ads \in {5, 20} :
        UpdateSubscription(Subscription("s1", "t1", ads, NoDuration, "new"),
                           <<"ack_deadline_seconds">>)

LeaseTick == ticks < MaxTicks /\ Tick(defaultAckTimeout + 1)

NextLease ==
    \/ DoCreateTopic
    \/ RRCreateSubscription
    \/ LeaseUpdateSubscription
    \/ DelGetSubscription
    \/ DoPublish
    \/ DoPull
    \/ LeaseTick

SpecLease == Init /\ [][NextLease]_vars

\* C31: the lease a unary Pull gives lasts the ack deadline the subscription
\* is set to when the Pull runs, the AckDeadlineSeconds that GetSubscription
\* returns, also after an UpdateSubscription that changed it.
C31_PullLeaseIsSetting ==
    [][(Pull("s1", 1, TRUE) /\ last'.ids # {}) =>
          \A id \in last'.ids :
              subObjs'[last'.sub].msgs[id].ackDeadline =
                  now + secsToDur(subObjs[last'.sub].proto.AckDeadlineSeconds)]_vars

\* -------------------------------------------------------------- SpecModack
\* deadline modifications by unary calls and inside StreamingPull requests
ModStreamRecv ==
    \E st \in DOMAIN streamObjs, id \in msgsByID, secs \in {0, 2} :
        StreamRecv(st, {}, {id}, secs, 0)

NextModack ==
    \/ DoCreateTopic
    \/ RRCreateSubscription
    \/ DoPublish
    \/ DoPull
    \/ DoAcknowledge
    \/ DoModifyAckDeadline
    \/ OneStream
    \/ ModStreamRecv
    \/ DoSendDone
    \/ DoDeliverBegin
    \/ DoDeliverStep

SpecModack == Init /\ [][NextModack]_vars

\* the audit log of message id grows by the one record (now, secs)
Logged(id, secs) ==
    messages'[id].modacks =
        Append(messages[id].modacks, [AckDeadline |-> secs, ReceivedAt |-> now])

\* C32: every deadline modification requested for a published message id,
\* by a unary ModifyAckDeadline call or inside a StreamingPull request,
\* appends exactly one record (time, requested deadline) to the message's
\* audit log, pending or not; the records already there stay as they are.
C32_ModacksLogged ==
    [][/\ (\A id \in msgsByID, secs \in {0, 2} :
              (ModifyAckDeadline("s1", {id}, secs) /\ last'.err = "OK") =>
                  Logged(id, secs))
       /\ (\A st \in DOMAIN streamObjs, id \in msgsByID, secs \in {0, 2} :
              StreamRecv(st, {}, {id}, secs, 0) => Logged(id, secs))
       /\ (\A id \in msgsByID :
              SubSeq(messages'[id].modacks, 1, Len(messages[id].modacks)) =
                  messages[id].modacks)]_vars

\* C33: Seek(target) leaves every entry alone that is pending with a publish
\* time at or after target: a Leased message is Leased with the same
\* lease-expiry after the Seek; only messages not pending are reinserted.
C33_SeekKeepsPending ==
    [][\A target \in 1 .. (MaxTicks + 2) :
          (Seek("s1", target) /\ last'.err = "OK") =>
              \A id \in DOMAIN subObjs[last'.sub].msgs :
                  subObjs[last'.sub].msgs[id].publishTime >= target =>
                      /\ id \in DOMAIN subObjs'[last'.sub].msgs
                      /\ subObjs'[last'.sub].msgs[id].ackDeadline =
                             subObjs[last'.sub].msgs[id].ackDeadline
                      /\ subObjs'[last'.sub].msgs[id].streamIndex =
                             subObjs[last'.sub].msgs[id].streamIndex]_vars

\* the entries of subscription object o that a Seek has inserted
Reinserted(o) == {id \in DOMAIN subObjs[o].msgs : ~subObjs[o].msgs[id].hasMessage}

\* C34: after a Seek that reinserted a historical message the subscription
\* keeps working: the next maintenance pass and Pull complete without
\* failure, and a Pull returns the reinserted messages that are Available.
C34_SeekThenServes ==
    [][\A o \in DOMAIN subObjs :
          Reinserted(o) # {} =>
              /\ (Pull("s1", 0, TRUE) /\ subs["s1"] = o =>
                     /\ ~panicked' /\ last'.err = "OK"
                     /\ Reinserted(o) \cap Available(subObjs[o].msgs) \subseteq last'.ids)
              /\ (DeliverBegin(o) => ~panicked')]_vars

\* C35: a pending message goes from Available to Leased only by being
\* delivered, by a Pull that returns it or a stream delivery that hands it
\* over, with its delivery counter raised by one; Publish, Acknowledge,
\* ModifyAckDeadline, Seek and maintenance never lease an Available message.
C35_LeasedOnlyByDelivery ==
    [][\A o \in DOMAIN subObjs, id \in MsgIds :
          (/\ id \in DOMAIN subObjs[o].msgs
           /\ id \in DOMAIN subObjs'[o].msgs
           /\ ~outstanding(subObjs[o].msgs[id]) \/ now > subObjs[o].msgs[id].ackDeadline
           /\ outstanding(subObjs'[o].msgs[id])
           /\ now' <= subObjs'[o].msgs[id].ackDeadline)
          => /\ last'.op \in {"Pull", "deliver"}
             /\ id \in last'.ids
             /\ messages'[id].deliveries = messages[id].deliveries + 1]_vars

\* ---------------------------------------------------------------- SpecLock
\* every task that takes GServer.mu: Publish, Pull with its wait,
\* Acknowledge, the two halves of StreamingPull calls, DeleteSubscription and
\* the delivery passes
LockPull == Pull("s1", 1, FALSE)

NextLock ==
    \/ DoCreateTopic
    \/ RRCreateSubscription
    \/ StrPublish
    \/ LockPull
    \/ PullPullRetry
    \/ DoAcknowledge
    \/ DoStreamingPull
    \/ StrStreamRecv
    \/ ScanStreamEnd
    \/ StrStreamDelete
    \/ DelDeleteSubscription
    \/ DoDeliverBegin
    \/ DoDeliverStep
    \/ DoSendDone

SpecLock == Init /\ [][NextLock]_vars

\* C36: the broker lock is never held across a blocking wait.  While a
\* delivery pass holds it, its next step can be taken whatever the streams
\* do (a stream that is not ready is skipped), and every step ends the pass
\* or leaves fewer messages to try; while no pass holds it, a call that
\* needs it can take it, also when Pull calls wait and sendLoops are in
\* Send.
C36_LockNeverWaits ==
    /\ [](Running /\ ~Unlocked =>
              /\ dlv.todo # {}
              /\ \A id \in dlv.todo : ENABLED DeliverStep(id))
    /\ [](Running /\ Unlocked =>
              /\ ENABLED Acknowledge("s1", {})
              /\ \A w \in pullWait : ENABLED PullRetry(w)
              /\ \A st \in DOMAIN streamObjs :
                     streamObjs[st].done /\ ~streamObjs[st].ended =>
                         ENABLED StreamDelete(st))
    /\ [][\A id \in MsgIds :
              DeliverStep(id) =>
                  Unlocked' \/ Cardinality(dlv'.todo) < Cardinality(dlv.todo)]_vars

\* a pass found every stream of the list busy in Send while a Pull call
\* waited: it gave up and released the lock
C36_Witness ==
    /\ last.op = "deliver" /\ last.err = "busy" /\ Unlocked
    /\ pullWait # {}
    /\ \E st \in DOMAIN streamObjs :
           ~streamObjs[st].done /\ streamObjs[st].pc = "Send"

\* C37: once DeleteSubscription(s) has returned, nothing is delivered from
\* s: no Pull that was waiting on s, no delivery pass and no stream of s
\* leases one of its messages or raises a delivery counter for it.
C37_DeletedDeliversNothing ==
    [][\A o \in DOMAIN subObjs :
          subObjs[o].done =>
              /\ ~(last'.op \in {"Pull", "deliver"} /\ last'.sub = o /\ last'.ids # {})
              /\ \A id \in DOMAIN subObjs[o].msgs :
                     /\ messages'[id].deliveries = messages[id].deliveries
                     /\ (id \in DOMAIN subObjs'[o].msgs /\ outstanding(subObjs'[o].msgs[id])) =>
                            subObjs'[o].msgs[id].ackDeadline = subObjs[o].msgs[id].ackDeadline]_vars

\* GServer.ListTopicSubscriptions with a page that holds every name: the
\* registered subscriptions whose topic object carries the name t
ListTopicSubscriptions(t) ==
    {s \in DOMAIN subs : subObjs[subs[s]].topic = t}

\* C38: for an existing topic t, ListTopicSubscriptions(t) lists exactly the
\* subscriptions attached to t, those a Publish to t would reach now.
C38_ListsAttached ==
    \A t \in DOMAIN topics :
        ListTopicSubscriptions(t) = {s \in DOMAIN subs : subs[s] \in topics[t].subs}

\* --------------------------------------------------------------- SpecCross
\* subscriptions on several topics, with Seek
NextCross ==
    \/ FanCreateTopic
    \/ FanCreateSubscription
    \/ FanPublish
    \/ SeekSeek

SpecCross == Init /\ [][NextCross]_vars

\* C39: the pending set of a subscription holds only messages that were
\* published to the subscription's own topic; Seek inserts no message of
\* another topic.
C39_PendingFromOwnTopic ==
    \A o \in DOMAIN subObjs :
        \A id \in DOMAIN subObjs[o].msgs :
            messages[id].topic = subObjs[o].topic

\* C40: whatever other callers do while one caller starts an emulator, the
\* lock file of an emulator that startEmulator has returned is in the lock
\* directory and describes the emulator, so that the emulator stays in the
\* pool for later callers.
C40_StartedStaysListed ==
    \A h \in Holders :
        (holders[h].pc = "held" /\ holders[h].how = "started") =>
            /\ lockFiles[holders[h].em].listed
            /\ lockFiles[holders[h].em].data = "valid"
====
